---- MODULE Spec2Model ----
(***************************************************************************)
(* State-machine model of mnexium/core-mnx: the Postgres store             *)
(* (PostgresCoreStore.ts), the HTTP handlers (createCoreServer.ts) and the *)
(* retrieval service (recallService.ts).                                   *)
(*                                                                         *)
(* Strings are sequences of one-character strings, so that String.trim()   *)
(* and template-string concatenation are modelled by what they do.        *)
(* Similarities and confidences are integers (x100).                       *)
(***************************************************************************)
EXTENDS Integers, Sequences, FiniteSets, TLC

VARIABLES memories, claims, claim_assertions, slot_state, claim_edges, pending, last,
          subscribers, inbox, handles

vars == <<memories, claims, claim_assertions, slot_state, claim_edges, pending, last,
          subscribers, inbox, handles>>

(***************************************************************************)
(* Strings                                                                 *)
(***************************************************************************)

\* SQL NULL / JS null / an absent body field.  No string is equal to it.
NULL == <<"NULL">>

IsWs(c) == c = " "

RECURSIVE TrimStart(_)
TrimStart(s) == IF s # <<>> /\ IsWs(Head(s)) THEN TrimStart(Tail(s)) ELSE s

RECURSIVE TrimEnd(_)
TrimEnd(s) == IF s # <<>> /\ IsWs(s[Len(s)]) THEN TrimEnd(SubSeq(s, 1, Len(s) - 1)) ELSE s

\* String.prototype.trim
Trim(s) == TrimEnd(TrimStart(s))

\* JS truthiness of a string-or-null value
Truthy(s) == s # NULL /\ s # <<>>

\* String(x || "").trim()
StrTrim(x) == IF Truthy(x) THEN Trim(x) ELSE <<>>

\* x || null
OrNull(x) == IF Truthy(x) THEN x ELSE NULL

(***************************************************************************)
(* The event bus (MemoryEventBus).  subscribers is its Map: key -> the      *)
(* callbacks registered under it, in insertion order.  inbox[cb] records   *)
(* what callback cb was registered with and the events it was called with. *)
(* handles holds the unsubscribe functions that subscribe has returned to  *)
(* callers that keep them.                                                 *)
(***************************************************************************)

\* SSE connections opened during a run
MaxSubscribers == 2

\* `${projectId}:${subjectId || "*"}`
Key(p, s) == p \o <<":">> \o (IF Truthy(s) THEN s ELSE <<"*">>)

\* this.subscribers.get(k)
SubscribersGet(subs, k) == IF k \in DOMAIN subs THEN subs[k] ELSE <<>>

\* the callbacks registered at present
Subscribed(subs) == UNION {{subs[k][i] : i \in DOMAIN subs[k]} : k \in DOMAIN subs}

\* has / set(k, new Set()) / add(cb): a Set holds a callback once
SubscribersAdd(subs, k, cb) ==
  IF k \notin DOMAIN subs THEN subs @@ (k :> <<cb>>)
  ELSE IF \E i \in DOMAIN subs[k] : subs[k][i] = cb THEN subs
  ELSE [subs EXCEPT ![k] = Append(@, cb)]

\* the function returned by subscribe: set.delete(cb), and the key is
\* dropped when its set is empty
SubscribersDelete(subs, k, cb) ==
  IF k \notin DOMAIN subs THEN subs
  ELSE LET rest == SelectSeq(subs[k], LAMBDA x : x # cb)
       IN IF rest = <<>> THEN [j \in DOMAIN subs \ {k} |-> subs[j]]
          ELSE [subs EXCEPT ![k] = rest]

\* variant: the newest event is put in front of what was written before
InvokePrepending(box, cb, event) ==
  IF "stream" \in DOMAIN box[cb]
  THEN [box EXCEPT ![cb].events = <<event>> \o @,
                   ![cb].stream = <<[event |-> event.type, data |-> event.data]>> \o @]
  ELSE [box EXCEPT ![cb].events = <<event>> \o @]

\* writeSse(eventType, data): one frame written to the response
WriteSse(stream, eventType, data) == Append(stream, [event |-> eventType, data |-> data])

\* cb(event).  The callback of an SSE connection is
\* (event) => writeSse(event.type, event.data).
Invoke(box, cb, event) ==
  IF "stream" \in DOMAIN box[cb]
  THEN [box EXCEPT ![cb].events = Append(@, event),
                   ![cb].stream = WriteSse(@, event.type, event.data)]
  ELSE [box EXCEPT ![cb].events = Append(@, event)]

\* variant: forEach without try / catch
PropagatesUncaught(threw) == threw

\* try { cb(event) } catch { }: whether a failure of the callback leaves forEach
Propagates(threw) == FALSE

\* set.forEach((cb) => { try { cb(event) } catch {} })
RECURSIVE ForEach(_, _, _)
ForEach(st, cbs, event) ==
  IF cbs = <<>> \/ st.aborted THEN st
  ELSE ForEach([ box |-> Invoke(st.box, Head(cbs), event),
                 aborted |-> Propagates(st.box[Head(cbs)].throws) ],
               Tail(cbs), event)

\* emit: the callbacks under key(project, subject), then those under
\* key(project, null)
Emit(box, subs, event) ==
  LET specific == SubscribersGet(subs, Key(event.project_id, event.subject_id))
      projectWide == SubscribersGet(subs, Key(event.project_id, NULL))
  IN ForEach(ForEach([box |-> box, aborted |-> FALSE], specific, event),
             projectWide, event).box

\* the bus.emit calls of one handler, in the order it makes them
RECURSIVE EmitAll(_, _, _)
EmitAll(box, subs, events) ==
  IF events = <<>> THEN box
  ELSE EmitAll(Emit(box, subs, Head(events)), subs, Tail(events))

EventsOf(response) == IF "events" \in DOMAIN response THEN response.events ELSE <<>>

\* what the bus.emit calls of a handler do to the bus
Dispatch ==
  /\ subscribers' = subscribers
  /\ handles' = handles
  /\ inbox' = EmitAll(inbox, subscribers, EventsOf(last'))

NextSubscriber == Cardinality(DOMAIN inbox) + 1

\* heartbeats written to one connection during a run
MaxHeartbeats == 1

\* variant: nothing is written when the connection opens
OpenStreamSilent(p, subjectId) == <<>>

\* writeHead(200, ...), then writeSse("connected", {project_id, subject_id}):
\* what the response holds when bus.subscribe is called
OpenStream(p, subjectId) ==
  WriteSse(<<>>, "connected", [project_id |-> p, subject_id |-> subjectId])

\* GET /api/v1/events/memories: the connected frame, bus.subscribe(projectId,
\* subjectId, cb), setInterval(heartbeat).  throws tells whether the callback
\* fails when it is called; timer whether the interval is set; closed whether
\* the request has emitted close.
SubscribeEvents(p, subjectParam, throws) ==
  LET subjectId == OrNull(StrTrim(subjectParam))
      cb == NextSubscriber
  IN /\ cb <= MaxSubscribers
     /\ subscribers' = SubscribersAdd(subscribers, Key(p, subjectId), cb)
     /\ inbox' = inbox @@ (cb :> [ project_id |-> p, subject_id |-> subjectId,
                                   throws |-> throws, events |-> <<>>,
                                   stream |-> OpenStream(p, subjectId),
                                   timer |-> TRUE, closed |-> FALSE ])
     /\ last' = [op |-> "subscribe", status |-> 200, project_id |-> p, subscriber |-> cb]
     /\ UNCHANGED <<memories, claims, claim_assertions, slot_state, claim_edges, pending,
                    handles>>

\* the interval fires: writeSse("heartbeat", {timestamp})
Heartbeat(cb) ==
  /\ cb \in DOMAIN inbox
  /\ "timer" \in DOMAIN inbox[cb]
  /\ inbox[cb].timer
  /\ Cardinality({i \in DOMAIN inbox[cb].stream : inbox[cb].stream[i].event = "heartbeat"})
       < MaxHeartbeats
  /\ inbox' = [inbox EXCEPT ![cb].stream = WriteSse(@, "heartbeat", <<>>)]
  /\ last' = [op |-> "heartbeat", status |-> 0, subscriber |-> cb]
  /\ UNCHANGED <<memories, claims, claim_assertions, slot_state, claim_edges, pending,
                 subscribers, handles>>

\* variant: the interval is left running
ClearIntervalMissing(timer) == timer

\* clearInterval(heartbeat): whether the interval is still set
ClearInterval(timer) == FALSE

\* req.on("close"): clearInterval(heartbeat); unsubscribe()
CloseEvents(cb) ==
  /\ cb \in DOMAIN inbox
  /\ "closed" \in DOMAIN inbox[cb]
  /\ ~inbox[cb].closed
  /\ subscribers' = SubscribersDelete(subscribers, Key(inbox[cb].project_id, inbox[cb].subject_id), cb)
  /\ inbox' = [inbox EXCEPT ![cb].timer = ClearInterval(@), ![cb].closed = TRUE]
  /\ last' = [op |-> "unsubscribe", status |-> 0, subscriber |-> cb]
  /\ UNCHANGED <<memories, claims, claim_assertions, slot_state, claim_edges, pending,
                 handles>>

\* unsubscribe functions kept by callers, and the calls made of each
MaxHandles == 3

MaxCalls == 2

\* events a callback is called with during a run
MaxDelivered == 2

\* subscribe(projectId, subjectId, cb) called by code that keeps the function
\* it returns.  A callback is registered again only for the topic it was
\* registered for before.
BusSubscribe(p, s, cb, throws) ==
  /\ Cardinality(handles) < MaxHandles
  /\ cb \in 1 .. MaxSubscribers
  /\ cb \in DOMAIN inbox => inbox[cb].project_id = p /\ inbox[cb].subject_id = s
  /\ subscribers' = SubscribersAdd(subscribers, Key(p, s), cb)
  /\ inbox' = IF cb \in DOMAIN inbox THEN inbox
              ELSE inbox @@ (cb :> [ project_id |-> p, subject_id |-> s,
                                     throws |-> throws, events |-> <<>> ])
  /\ handles' = handles \cup {[ id |-> Cardinality(handles) + 1, key |-> Key(p, s),
                                 cb |-> cb, calls |-> 0 ]}
  /\ last' = [op |-> "bus.subscribe", status |-> 0, handle |-> Cardinality(handles) + 1]
  /\ UNCHANGED <<memories, claims, claim_assertions, slot_state, claim_edges, pending>>

\* a call of the function subscribe returned
BusUnsubscribe(h) ==
  /\ h \in handles
  /\ h.calls < MaxCalls
  /\ subscribers' = SubscribersDelete(subscribers, h.key, h.cb)
  /\ handles' = (handles \ {h}) \cup {[h EXCEPT !.calls = @ + 1]}
  /\ last' = [op |-> "bus.unsubscribe", status |-> 0, handle |-> h.id, again |-> h.calls > 0]
  /\ UNCHANGED <<memories, claims, claim_assertions, slot_state, claim_edges, pending, inbox>>

\* emit(projectId, subjectId, type, data)
BusEmit(p, s, type, data) ==
  /\ \A cb \in DOMAIN inbox : Len(inbox[cb].events) < MaxDelivered
  /\ last' = [op |-> "bus.emit", status |-> 0, events |-> <<[ type |-> type, project_id |-> p,
                                                            subject_id |-> s, data |-> data ]>>]
  /\ UNCHANGED <<memories, claims, claim_assertions, slot_state, claim_edges, pending>>
  /\ Dispatch

(***************************************************************************)
(* Bounds and input sets                                                   *)
(***************************************************************************)

MaxClaims == 3

Digit == <<"1", "2", "3", "4", "5", "6">>

\* claim ids are opaque (clm_<uuid> or client supplied): the i-th row is named c<i>
ClaimIdOf(i) == <<"c", Digit[i]>>

ClaimIds == {ClaimIdOf(i) : i \in 1..MaxClaims}

Projects == {<<"p">>, <<"q">>}

\* body.reason of POST /api/v1/claims/:id/retract
ReasonInputs == {NULL}

ManualRetraction == <<"m">>

\* Requests of POST /api/v1/claims: the resolved project and the JSON body as
\* sent (claim_id is added by the next-state relation).
ClaimBody(p, s, pred, slot, obj, conf, imp, mem) ==
  [ project_id |-> p, subject_id |-> s, predicate |-> pred, slot |-> slot,
    object_value |-> obj, confidence |-> conf, importance |-> imp,
    source_memory_id |-> mem ]

ClaimRequests ==
  { ClaimBody(<<"p">>, <<"s">>, <<"k">>, <<>>, <<"v">>, {30}, {}, NULL),
    ClaimBody(<<"p">>, <<" ", "s">>, <<"n", " ">>, <<"k">>, <<"w">>, {90}, {70}, NULL),
    ClaimBody(<<"q">>, <<"s">>, <<"k">>, NULL, <<"w">>, {90}, {70}, NULL) }

\* x100
DefaultClaimConfidence == 80

DefaultClaimImportance == 50

(***************************************************************************)
(* clampFloat, on x100 integers                                            *)
(***************************************************************************)

\* A numeric body field is {} when absent (Number(undefined) is NaN) and {n} otherwise.
NumOf(value) == CHOOSE n \in value : TRUE

ClampFloat(value, min, max, fallback) ==
  IF value = {} THEN fallback
  ELSE IF NumOf(value) < min THEN min
  ELSE IF NumOf(value) > max THEN max
  ELSE NumOf(value)

(***************************************************************************)
(* Claims: PostgresCoreStore.createClaim / retractClaim and the views      *)
(***************************************************************************)

InferSlot(predicate) == StrTrim(predicate)

SlotKey(p, s, slot) == <<p, s, slot>>

\* The three tables createClaim writes, as one value
Db == [claims |-> claims, claim_assertions |-> claim_assertions, slot_state |-> slot_state]

\* asserted_at DEFAULT NOW(): transactions run one after another, so the n-th
\* inserted row carries the n-th timestamp.
NowClaims(db) == Cardinality(DOMAIN db.claims) + 1

Upsert(f, k, v) == [x \in DOMAIN f \cup {k} |-> IF x = k THEN v ELSE f[x]]

\* Does the INSERT INTO claims succeed?  claim_id is the primary key and
\* source_memory_id is a foreign key into memories(id).
ClaimInsertOk(db, mems, input) ==
  /\ input.claim_id \notin DOMAIN db.claims
  /\ OrNull(input.source_memory_id) # NULL => input.source_memory_id \in DOMAIN mems

CreateClaimSlot(input) ==
  IF Truthy(input.slot) THEN input.slot ELSE InferSlot(input.predicate)

CreateClaimRow(db, input) ==
  [ claim_id |-> input.claim_id,
    project_id |-> input.project_id,
    subject_id |-> input.subject_id,
    predicate |-> input.predicate,
    object_value |-> input.object_value,
    slot |-> CreateClaimSlot(input),
    confidence |-> ClampFloat(input.confidence, 0, 100, DefaultClaimConfidence),
    importance |-> ClampFloat(input.importance, 0, 100, DefaultClaimImportance),
    source_memory_id |-> OrNull(input.source_memory_id),
    status |-> "active",
    asserted_at |-> NowClaims(db),
    retract_reason |-> NULL ]

CreateClaimAssertion(input) ==
  [ claim_id |-> input.claim_id,
    project_id |-> input.project_id,
    subject_id |-> input.subject_id,
    memory_id |-> OrNull(input.source_memory_id),
    predicate |-> input.predicate,
    object_type |-> "string",
    value_string |-> input.object_value,
    confidence |-> ClampFloat(input.confidence, 0, 100, DefaultClaimConfidence),
    status |-> "active" ]

\* variant: the new claim takes the slot only when no active winner has a higher confidence
CreateClaimSlotStateByConfidence(db, input) ==
  LET k == SlotKey(input.project_id, input.subject_id, CreateClaimSlot(input))
  IN IF /\ k \in DOMAIN db.slot_state
        /\ db.slot_state[k].status = "active"
        /\ db.claims[db.slot_state[k].active_claim_id].confidence >
             ClampFloat(input.confidence, 0, 100, DefaultClaimConfidence)
     THEN db.slot_state
     ELSE Upsert(db.slot_state, k,
                 [ active_claim_id |-> input.claim_id,
                   status |-> "active",
                   replaced_by_claim_id |-> NULL ])

\* INSERT INTO slot_state ... ON CONFLICT (project_id, subject_id, slot) DO UPDATE
CreateClaimSlotState(db, input) ==
  Upsert(db.slot_state,
         SlotKey(input.project_id, input.subject_id, CreateClaimSlot(input)),
         [ active_claim_id |-> input.claim_id,
           status |-> "active",
           replaced_by_claim_id |-> NULL ])

\* The statements between BEGIN and COMMIT of createClaim, run on tables db.
\* failAt = k > 0: the k-th statement throws (the database fails under it);
\* failAt = 0: only a constraint can make a statement throw.  The result is
\* the tables as the statements left them, and whether COMMIT was reached.
CreateClaimStatements(db, mems, input, failAt) ==
  LET db1 == [db EXCEPT !.claims = Upsert(db.claims, input.claim_id, CreateClaimRow(db, input))]
      db2 == [db1 EXCEPT !.claim_assertions = db.claim_assertions \cup {CreateClaimAssertion(input)}]
      db3 == [db2 EXCEPT !.slot_state = CreateClaimSlotState(db, input)]
  IN IF failAt = 1 \/ ~ClaimInsertOk(db, mems, input) THEN [db |-> db, ok |-> FALSE]
     ELSE IF failAt = 2 THEN [db |-> db1, ok |-> FALSE]
     ELSE IF failAt = 3 THEN [db |-> db2, ok |-> FALSE]
     ELSE [db |-> db3, ok |-> TRUE]

\* variant: the writes made before the failure stay
RollbackKeepsWrites(before, written) == written

\* catch (err) { await client.query("ROLLBACK"); throw err; }
Rollback(before, written) == before

CreateClaimTx(db, mems, input, failAt) ==
  IF CreateClaimStatements(db, mems, input, failAt).ok
  THEN CreateClaimStatements(db, mems, input, failAt).db
  ELSE Rollback(db, CreateClaimStatements(db, mems, input, failAt).db)

\* The transaction of createClaim on tables db: all three statements, or none
\* (ROLLBACK and throw).
CreateClaimDb(db, mems, input) == CreateClaimTx(db, mems, input, 0)

CreateClaim(input) ==
  /\ claims' = CreateClaimDb(Db, memories, input).claims
  /\ claim_assertions' = CreateClaimDb(Db, memories, input).claim_assertions
  /\ slot_state' = CreateClaimDb(Db, memories, input).slot_state

\* SELECT claim_id FROM claims WHERE project/subject/slot, status='active',
\* claim_id <> $4 ORDER BY asserted_at DESC LIMIT 1, evaluated on table cl
OtherActive(cl, p, s, slot, cid) ==
  {c \in DOMAIN cl : /\ cl[c].project_id = p
                     /\ cl[c].subject_id = s
                     /\ cl[c].slot = slot
                     /\ cl[c].status = "active"
                     /\ c # cid}

\* variant: ORDER BY asserted_at ASC
PreviousOldest(cl, p, s, slot, cid) ==
  LET cand == OtherActive(cl, p, s, slot, cid)
  IN IF cand = {} THEN NULL
     ELSE CHOOSE c \in cand : \A d \in cand : cl[d].asserted_at >= cl[c].asserted_at

Previous(cl, p, s, slot, cid) ==
  LET cand == OtherActive(cl, p, s, slot, cid)
  IN IF cand = {} THEN NULL
     ELSE CHOOSE c \in cand : \A d \in cand : cl[d].asserted_at <= cl[c].asserted_at

\* variant: the lookup also requires status = 'active'
RetractLookupActiveOnly(p, cid) ==
  cid \in DOMAIN claims /\ claims[cid].project_id = p /\ claims[cid].status = "active"

\* SELECT * FROM claims WHERE project_id = $1 AND claim_id = $2
RetractLookup(p, cid) == cid \in DOMAIN claims /\ claims[cid].project_id = p

RetractedClaims(cid, reason) ==
  [claims EXCEPT ![cid].status = "retracted", ![cid].retract_reason = reason]

RetractPrevious(cid, reason) ==
  Previous(RetractedClaims(cid, reason), claims[cid].project_id, claims[cid].subject_id,
           claims[cid].slot, cid)

EdgeKey(e) == <<e.project_id, e.from_claim_id, e.to_claim_id, e.edge_type>>

\* INSERT ... ON CONFLICT (project_id, from_claim_id, to_claim_id, edge_type) DO NOTHING
InsertEdge(edges, e) ==
  IF \E x \in edges : EdgeKey(x) = EdgeKey(e) THEN edges ELSE edges \cup {e}

\* variant: the slot stays 'active' whatever the lookup of a previous claim found
RetractSlotStatusAlwaysActive(previous) == "active"

\* previous ? "active" : "retracted"
RetractSlotStatus(previous) == IF previous # NULL THEN "active" ELSE "retracted"

RetractResult(p, cid, reason) ==
  IF ~RetractLookup(p, cid)
  THEN [ success |-> FALSE, claim_id |-> cid, slot |-> <<>>,
         previous_claim_id |-> NULL, restored_previous |-> FALSE ]
  ELSE [ success |-> TRUE, claim_id |-> cid, slot |-> claims[cid].slot,
         previous_claim_id |-> RetractPrevious(cid, reason),
         restored_previous |-> RetractPrevious(cid, reason) # NULL ]

\* The three tables after the transaction of retractClaim on a row that was found
RetractSlotStateAfter(p, cid, reason) ==
  Upsert(slot_state, SlotKey(p, claims[cid].subject_id, claims[cid].slot),
         [ active_claim_id |-> RetractPrevious(cid, reason),
           status |-> RetractSlotStatus(RetractPrevious(cid, reason)),
           replaced_by_claim_id |-> cid ])

RetractEdgesAfter(p, cid, reason) ==
  IF RetractPrevious(cid, reason) # NULL
  THEN InsertEdge(claim_edges,
                  [ project_id |-> p,
                    subject_id |-> claims[cid].subject_id,
                    from_claim_id |-> cid,
                    to_claim_id |-> RetractPrevious(cid, reason),
                    edge_type |-> "retracts",
                    reason_text |-> reason ])
  ELSE claim_edges

RetractClaim(p, cid, reason) ==
  IF ~RetractLookup(p, cid)
  THEN UNCHANGED <<claims, slot_state, claim_edges>>
  ELSE /\ claims' = RetractedClaims(cid, reason)
       /\ slot_state' = RetractSlotStateAfter(p, cid, reason)
       /\ claim_edges' = RetractEdgesAfter(p, cid, reason)

\* The statements of retractClaim on a row that was found, when statement
\* failAt throws: 1 the lookup, 2 UPDATE claims, 3 the SELECT of the previous
\* claim, 4 the slot_state upsert, 5 the INSERT of the edge.
RetractStatements(p, cid, reason, failAt) ==
  [ claims |-> IF failAt > 2 THEN RetractedClaims(cid, reason) ELSE claims,
    slot_state |-> IF failAt > 4 THEN RetractSlotStateAfter(p, cid, reason) ELSE slot_state,
    claim_edges |-> claim_edges ]

\* retractClaim when a statement throws: ROLLBACK, then the error is thrown on
RetractClaimFailing(p, cid, reason, failAt) ==
  LET before == [claims |-> claims, slot_state |-> slot_state, claim_edges |-> claim_edges]
      after == IF failAt = 1 \/ ~RetractLookup(p, cid) THEN before
               ELSE Rollback(before, RetractStatements(p, cid, reason, failAt))
  IN /\ claims' = after.claims
     /\ slot_state' = after.slot_state
     /\ claim_edges' = after.claim_edges

\* slot_state ss INNER JOIN claims c ON c.project_id = ss.project_id AND
\* c.claim_id = ss.active_claim_id WHERE ss.status = 'active' AND c.status = 'active'
TruthRow(k) ==
  [ slot |-> k[3],
    active_claim_id |-> slot_state[k].active_claim_id,
    predicate |-> claims[slot_state[k].active_claim_id].predicate,
    object_value |-> claims[slot_state[k].active_claim_id].object_value,
    confidence |-> claims[slot_state[k].active_claim_id].confidence,
    source_memory_id |-> claims[slot_state[k].active_claim_id].source_memory_id ]

\* variant: the join does not look at the status of the claim
TruthJoinAnyClaim(k) ==
  /\ slot_state[k].status = "active"
  /\ slot_state[k].active_claim_id \in DOMAIN claims
  /\ claims[slot_state[k].active_claim_id].project_id = k[1]

TruthJoin(k) ==
  /\ slot_state[k].status = "active"
  /\ slot_state[k].active_claim_id \in DOMAIN claims
  /\ claims[slot_state[k].active_claim_id].project_id = k[1]
  /\ claims[slot_state[k].active_claim_id].status = "active"

GetCurrentTruth(p, s) ==
  {TruthRow(k) : k \in {x \in DOMAIN slot_state : x[1] = p /\ x[2] = s /\ TruthJoin(x)}}

\* result.rows of getCurrentSlot: at most one row; the route answers 404
\* slot_not_found when it is empty
GetCurrentSlot(p, s, slot) ==
  IF SlotKey(p, s, slot) \in DOMAIN slot_state /\ TruthJoin(SlotKey(p, s, slot))
  THEN {TruthRow(SlotKey(p, s, slot))}
  ELSE {}

(***************************************************************************)
(* HTTP handlers: claims                                                   *)
(***************************************************************************)

NextClaimId == ClaimIdOf(Cardinality(DOMAIN claims) + 1)

\* POST /api/v1/claims
PostClaim(p, body) ==
  /\ LET subjectId == StrTrim(body.subject_id)
         predicate == StrTrim(body.predicate)
         objectValue == StrTrim(body.object_value)
         claimId == IF Truthy(body.claim_id) THEN body.claim_id ELSE NextClaimId
         input == [ claim_id |-> claimId,
                    project_id |-> p,
                    subject_id |-> subjectId,
                    predicate |-> predicate,
                    object_value |-> objectValue,
                    slot |-> body.slot,
                    confidence |-> body.confidence,
                    importance |-> body.importance,
                    source_memory_id |-> OrNull(body.source_memory_id) ]
     IN /\ UNCHANGED <<memories, claim_edges, pending>>
        /\ IF subjectId = <<>> \/ predicate = <<>> \/ objectValue = <<>>
           THEN /\ UNCHANGED <<claims, claim_assertions, slot_state>>
                /\ last' = [op |-> "createClaim", status |-> 400]
           ELSE /\ Truthy(body.claim_id) \/ Cardinality(DOMAIN claims) < MaxClaims
                /\ claimId \in DOMAIN claims \/ claimId = NextClaimId
                /\ CreateClaim(input)
                /\ last' = IF ClaimInsertOk(Db, memories, input)
                           THEN [ op |-> "createClaim", status |-> 201,
                                  project_id |-> p,
                                  claim_id |-> claimId,
                                  subject_id |-> subjectId,
                                  slot |-> CreateClaimSlot(input) ]
                           ELSE [op |-> "createClaim", status |-> 500]
  /\ Dispatch

\* POST /api/v1/claims/:id/retract
PostRetract(p, claimId, reasonIn) ==
  /\ LET reason == IF Truthy(reasonIn) THEN reasonIn ELSE ManualRetraction
         result == RetractResult(p, claimId, reason)
     IN /\ UNCHANGED <<memories, claim_assertions, pending>>
        /\ RetractClaim(p, claimId, reason)
        /\ last' = IF ~result.success
                   THEN [op |-> "retractClaim", status |-> 404, success |-> FALSE]
                   ELSE [ op |-> "retractClaim", status |-> 200,
                          project_id |-> p,
                          claim_id |-> result.claim_id,
                          success |-> TRUE,
                          slot |-> result.slot,
                          subject_id |-> claims[claimId].subject_id,
                          previous_claim_id |-> result.previous_claim_id,
                          restored_previous |-> result.restored_previous,
                          reason |-> reason,
                          \* what the handler's first SELECT saw, and the slot's winner then
                          found_status |-> claims[claimId].status,
                          winner_before |->
                            slot_state[SlotKey(p, claims[claimId].subject_id,
                                               claims[claimId].slot)].active_claim_id ]
  /\ Dispatch

\* POST /api/v1/claims when statement failAt of the transaction throws: the
\* error reaches the catch of the server, which answers 500 server_error
PostClaimFailing(p, body, failAt) ==
  /\ LET subjectId == StrTrim(body.subject_id)
         predicate == StrTrim(body.predicate)
         objectValue == StrTrim(body.object_value)
         claimId == IF Truthy(body.claim_id) THEN body.claim_id ELSE NextClaimId
         input == [ claim_id |-> claimId,
                    project_id |-> p,
                    subject_id |-> subjectId,
                    predicate |-> predicate,
                    object_value |-> objectValue,
                    slot |-> body.slot,
                    confidence |-> body.confidence,
                    importance |-> body.importance,
                    source_memory_id |-> OrNull(body.source_memory_id) ]
     IN /\ failAt > 0
        /\ subjectId # <<>> /\ predicate # <<>> /\ objectValue # <<>>
        /\ claims' = CreateClaimTx(Db, memories, input, failAt).claims
        /\ claim_assertions' = CreateClaimTx(Db, memories, input, failAt).claim_assertions
        /\ slot_state' = CreateClaimTx(Db, memories, input, failAt).slot_state
        /\ last' = [ op |-> "createClaim", status |-> 500,
                     project_id |-> p, claim_id |-> claimId, failed_at |-> failAt ]
        /\ UNCHANGED <<memories, claim_edges, pending>>
  /\ Dispatch

\* POST /api/v1/claims/:id/retract when statement failAt of the transaction throws
PostRetractFailing(p, claimId, reasonIn, failAt) ==
  /\ LET reason == IF Truthy(reasonIn) THEN reasonIn ELSE ManualRetraction
     IN /\ failAt > 0
        /\ failAt = 1 \/ RetractLookup(p, claimId)
        /\ RetractClaimFailing(p, claimId, reason, failAt)
        /\ last' = [ op |-> "retractClaim", status |-> 500, success |-> FALSE,
                     project_id |-> p, claim_id |-> claimId, failed_at |-> failAt ]
        /\ UNCHANGED <<memories, claim_assertions, pending>>
  /\ Dispatch

(***************************************************************************)
(* Memories: texts, the embedder and pgvector similarity                   *)
(***************************************************************************)

MaxMemories == 3

MaxTextLength == 10000

\* server-generated ids (mem_<uuid>) are fresh: the i-th row is named m<i>
MemIdOf(i) == <<"m", Digit[i]>>

NextMemoryId == MemIdOf(Cardinality(DOMAIN memories) + 1)

LikesTea == <<"l", "i", "k", "e", "s", " ", "t", "e", "a", " ">>

\* "likes tea 1" .. "likes tea 4"
TextOf(i) == LikesTea \o <<Digit[i]>>

ShortText == <<"o", "k">>

Pad(s) == <<" ">> \o s \o <<" ">>

\* options.embed: the vector of a text, here one of four points.  The texts
\* and queries of the requests are the only strings that are embedded.
EmbedTable ==
  { <<TextOf(1), 1>>, <<TextOf(2), 2>>, <<TextOf(3), 3>>, <<TextOf(4), 4>>,
    <<ShortText, 2>>, <<<<"t", "e", "a">>, 3>>, <<<<"z", "z", " ", "t", "e", "a">>, 1>> }

Embed(text) == (CHOOSE e \in EmbedTable : e[1] = text)[2]

\* embedding = await options.embed(text), null when it throws or returns []
EmbedResult(text, embedOk) == IF embedOk THEN {Embed(text)} ELSE {}

\* cosine similarity x100 of two distinct points: [a][b] for a < b
PairSimilarity == << <<0, 59, 84, 85>>, <<0, 0, 60, 59>>, <<0, 0, 0, 84>> >>

\* (1 - (m.embedding <=> $3::vector)) * 100
Similarity(e1, e2) ==
  IF e1 = e2 THEN 100
  ELSE PairSimilarity[IF e1 < e2 THEN e1 ELSE e2][IF e1 < e2 THEN e2 ELSE e1]

DuplicateThreshold == 85

ConflictMinSimilarity == 60

ConflictMaxSimilarity == 85

ConflictLimit == 50

DefaultMemoryImportance == 50

DefaultMemoryConfidence == 95

ClampInt(value, min, max, fallback) ==
  IF value = {} THEN fallback
  ELSE IF NumOf(value) < min THEN min
  ELSE IF NumOf(value) > max THEN max
  ELSE NumOf(value)

Min(a, b) == IF a <= b THEN a ELSE b

Max(a, b) == IF a >= b THEN a ELSE b

EmbOf(value) == CHOOSE e \in value : TRUE

(***************************************************************************)
(* Memories: PostgresCoreStore                                             *)
(***************************************************************************)

\* created_at DEFAULT NOW(): the n-th inserted row carries the n-th timestamp
NowMemories(mems) == Cardinality(DOMAIN mems) + 1

\* INSERT INTO memories ... VALUES (..., 'active', NULL, FALSE, NOW()): the row
CreateMemoryRow(mems, input) ==
  [ id |-> input.id,
    project_id |-> input.project_id,
    subject_id |-> input.subject_id,
    text |-> StrTrim(input.text),
    importance |-> ClampInt(input.importance, 0, 100, DefaultMemoryImportance),
    confidence |-> ClampFloat(input.confidence, 0, 100, DefaultMemoryConfidence),
    embedding |-> input.embedding,
    status |-> "active",
    superseded_by |-> NULL,
    is_deleted |-> FALSE,
    created_at |-> NowMemories(mems) ]

\* id is the primary key of memories
MemoryInsertOk(input) == input.id \notin DOMAIN memories

CreateMemoryAfter(mems, input) == Upsert(mems, input.id, CreateMemoryRow(mems, input))

\* SELECT * FROM memories WHERE project_id = $1 AND id = $2 LIMIT 1: {} or {row}
GetMemory(p, id) ==
  IF id \in DOMAIN memories /\ memories[id].project_id = p THEN {memories[id]} ELSE {}

\* merged.text / importance / confidence / embedding of updateMemory
UpdatedMemoryRow(existing, patch) ==
  [ existing EXCEPT
      !.text = IF patch.text # NULL THEN Trim(patch.text) ELSE existing.text,
      !.importance = IF patch.importance # {}
                     THEN ClampInt(patch.importance, 0, 100, existing.importance)
                     ELSE existing.importance,
      !.embedding = IF patch.embedding # {} THEN patch.embedding ELSE existing.embedding ]

UpdateMemoryAfter(p, id, patch) ==
  IF GetMemory(p, id) = {} THEN memories
  ELSE [memories EXCEPT ![id] = UpdatedMemoryRow(memories[id], patch)]

\* UPDATE memories SET is_deleted = TRUE WHERE project_id, id, is_deleted = FALSE
DeleteMatches(p, id) ==
  id \in DOMAIN memories /\ memories[id].project_id = p /\ ~memories[id].is_deleted

DeleteMemoryAfter(p, id) ==
  IF DeleteMatches(p, id) THEN [memories EXCEPT ![id].is_deleted = TRUE] ELSE memories

\* variant: restore puts the status back and leaves superseded_by as it is
RestoredRowKeepsPointer(row) == [row EXCEPT !.status = "active"]

\* SET status = 'active', superseded_by = NULL
RestoredRow(row) == [row EXCEPT !.status = "active", !.superseded_by = NULL]

\* UPDATE ... WHERE project_id = $1 AND id = $2 AND is_deleted = FALSE
RestoreMatches(p, id) ==
  id \in DOMAIN memories /\ memories[id].project_id = p /\ ~memories[id].is_deleted

RestoreMemoryAfter(p, id) ==
  IF RestoreMatches(p, id) THEN [memories EXCEPT ![id] = RestoredRow(memories[id])]
  ELSE memories

\* rows of a subject ordered by created_at DESC (created_at values are distinct)
RECURSIVE NewestFirst(_, _)
NewestFirst(mems, ids) ==
  IF ids = {} THEN <<>>
  ELSE LET newest == CHOOSE x \in ids : \A y \in ids : mems[y].created_at <= mems[x].created_at
       IN <<newest>> \o NewestFirst(mems, ids \ {newest})

\* LIMIT $n OFFSET $k
LimitOffset(sq, limit, offset) ==
  SubSeq(sq, offset + 1, Min(Len(sq), offset + limit))

ListMemoriesWhere(mems, p, s, includeDeleted, includeSuperseded) ==
  {id \in DOMAIN mems : /\ mems[id].project_id = p
                        /\ mems[id].subject_id = s
                        /\ (includeDeleted \/ ~mems[id].is_deleted)
                        /\ (includeSuperseded \/ mems[id].status = "active")}

\* listMemories: the ids of the rows returned, in order.  limit and offset are
\* {} when absent.
ListMemories(mems, p, s, limit, offset, includeDeleted, includeSuperseded) ==
  LimitOffset(NewestFirst(mems, ListMemoriesWhere(mems, p, s, includeDeleted, includeSuperseded)),
              ClampInt(limit, 1, 200, 50), ClampInt(offset, 0, 1000000, 0))

ListSupersededWhere(mems, p, s) ==
  {id \in DOMAIN mems : /\ mems[id].project_id = p
                        /\ mems[id].subject_id = s
                        /\ ~mems[id].is_deleted
                        /\ mems[id].status = "superseded"}

ListSupersededMemories(mems, p, s, limit, offset) ==
  LimitOffset(NewestFirst(mems, ListSupersededWhere(mems, p, s)),
              ClampInt(limit, 1, 200, 50), ClampInt(offset, 0, 1000000, 0))

\* the WHERE clause findDuplicateMemory and findConflictingMemories share
ActiveWithEmbedding(p, s) ==
  {id \in DOMAIN memories : /\ memories[id].project_id = p
                            /\ memories[id].subject_id = s
                            /\ ~memories[id].is_deleted
                            /\ memories[id].status = "active"
                            /\ memories[id].embedding # {}}

SimilarityTo(id, e) == Similarity(EmbOf(memories[id].embedding), e)

\* variant: similarity > threshold
DuplicateCandidatesStrict(p, s, e, threshold) ==
  {id \in ActiveWithEmbedding(p, s) : SimilarityTo(id, e) > threshold}

\* ... AND similarity >= $4
DuplicateCandidates(p, s, e, threshold) ==
  {id \in ActiveWithEmbedding(p, s) : SimilarityTo(id, e) >= threshold}

\* findDuplicateMemory: ORDER BY similarity DESC LIMIT 1; the rows it may return
FindDuplicateMemory(p, s, e, threshold) ==
  LET cand == DuplicateCandidates(p, s, e, ClampFloat({threshold}, 0, 100, DuplicateThreshold))
  IN {id \in cand : \A other \in cand : SimilarityTo(other, e) <= SimilarityTo(id, e)}

ConflictCandidates(p, s, e, minSimilarity, maxSimilarity) ==
  {id \in ActiveWithEmbedding(p, s) :
     SimilarityTo(id, e) >= minSimilarity /\ SimilarityTo(id, e) < maxSimilarity}

\* the orders ORDER BY similarity DESC allows (ties in any order)
BySimilarityDesc(ids, e) ==
  {f \in [1..Cardinality(ids) -> ids] :
     /\ \A i, j \in 1..Cardinality(ids) : i # j => f[i] # f[j]
     /\ \A i, j \in 1..Cardinality(ids) :
          i < j => SimilarityTo(f[i], e) >= SimilarityTo(f[j], e)}

\* findConflictingMemories: the sequences of ids it may return
FindConflictingMemories(p, s, e, minSimilarity, maxSimilarity, limit) ==
  LET lo == ClampFloat({minSimilarity}, 0, 100, 60)
      hi == ClampFloat({maxSimilarity}, lo, 100, 85)
      n == ClampInt({limit}, 1, 200, 25)
      cand == ConflictCandidates(p, s, e, lo, hi)
  IN {SubSeq(f, 1, Min(n, Len(f))) : f \in BySimilarityDesc(cand, e)}

Range(sq) == {sq[i] : i \in 1..Len(sq)}

\* memory_ids.map((v) => String(v || "").trim()).filter(Boolean)
TrimmedIds(ids) == {StrTrim(ids[i]) : i \in 1..Len(ids)} \ {<<>>}

\* UPDATE memories SET status = 'superseded', superseded_by = $4 WHERE
\* project_id, subject_id, id = ANY($3), is_deleted = FALSE, status = 'active'
SupersedeMatches(mems, p, s, ids) ==
  {id \in DOMAIN mems : /\ mems[id].project_id = p
                        /\ mems[id].subject_id = s
                        /\ id \in TrimmedIds(ids)
                        /\ ~mems[id].is_deleted
                        /\ mems[id].status = "active"}

SupersedeMemoriesAfter(mems, p, s, ids, by) ==
  [id \in DOMAIN mems |->
     IF id \in SupersedeMatches(mems, p, s, ids)
     THEN [mems[id] EXCEPT !.status = "superseded", !.superseded_by = by]
     ELSE mems[id]]

\* result.rowCount
SupersedeMemoriesCount(mems, p, s, ids) == Cardinality(SupersedeMatches(mems, p, s, ids))

(***************************************************************************)
(* HTTP handlers: memories                                                 *)
(***************************************************************************)

\* bus.emit(projectId, subjectId, type, data)
Event(type, p, s, data) == [type |-> type, project_id |-> p, subject_id |-> s, data |-> data]

MemoryBody(s, text, id, noSupersede, extractClaims, importance) ==
  [ subject_id |-> s, text |-> text, id |-> id, no_supersede |-> noSupersede,
    extract_claims |-> extractClaims, importance |-> importance, confidence |-> {} ]

\* conflicts.map((c) => String(c.id || "").trim()).filter(Boolean)
TrimIdSeq(ids) == SelectSeq([i \in 1..Len(ids) |-> StrTrim(ids[i])], LAMBDA x : x # <<>>)

\* variant: the duplicate guard is skipped when no_supersede = true
DuplicateGuardUnlessNoSupersede(embeddingVector, noSupersede) ==
  embeddingVector # {} /\ ~noSupersede

\* if (embeddingVector && options.store.findDuplicateMemory)
DuplicateGuardApplies(embeddingVector, noSupersede) == embeddingVector # {}

\* if (embeddingVector && !noSupersede && options.store.findConflictingMemories)
PostMemoryConflicts(p, subjectId, embeddingVector, noSupersede) ==
  IF embeddingVector # {} /\ ~noSupersede
  THEN FindConflictingMemories(p, subjectId, EmbOf(embeddingVector), ConflictMinSimilarity,
                               ConflictMaxSimilarity, ConflictLimit)
  ELSE {<<>>}

\* String.prototype.toLowerCase on the letters of the model
LowerCase == ("K" :> "k") @@ ("V" :> "v") @@ ("W" :> "w")

ToLowerCase(s) == [i \in 1..Len(s) |-> IF s[i] \in DOMAIN LowerCase THEN LowerCase[s[i]] ELSE s[i]]

\* const key = `${claim.predicate.toLowerCase()}::${claim.object_value.toLowerCase()}`
ClaimKey(claim) == ToLowerCase(claim.predicate) \o <<":", ":">> \o ToLowerCase(claim.object_value)

\* variant: nothing is remembered as seen
DedupeClaimsKeepingAll(cs, seen) == cs

\* .filter((claim) => { if (seen.has(key)) return false; seen.add(key); return true; })
RECURSIVE DedupeClaims(_, _)
DedupeClaims(cs, seen) ==
  IF cs = <<>> THEN <<>>
  ELSE IF ClaimKey(Head(cs)) \in seen
       THEN DedupeClaims(Tail(cs), seen)
       ELSE <<Head(cs)>> \o DedupeClaims(Tail(cs), seen \cup {ClaimKey(Head(cs))})

MaxExtractedClaims == 20

ExtractedClaims(extracted) ==
  LET trimmed == [i \in 1..Len(extracted) |->
                    [ predicate |-> StrTrim(extracted[i].predicate),
                      object_value |-> StrTrim(extracted[i].object_value),
                      confidence |-> extracted[i].confidence ]]
      kept == SelectSeq(trimmed, LAMBDA c : c.predicate # <<>> /\ c.object_value # <<>>)
      unique == DedupeClaims(kept, {})
  IN \* trimmed, blank ones dropped, first of each key kept, .slice(0, 20)
     SubSeq(unique, 1, Min(MaxExtractedClaims, Len(unique)))

ExtractionTask(p, subjectId, memoryId, todo) ==
  [project_id |-> p, subject_id |-> subjectId, memory_id |-> memoryId, claims |-> todo]

\* POST /api/v1/memories.  embedOk: options.embed returns a vector;
\* extracted: the claims extractionService.extract will return for the text.
PostMemory(p, body, embedOk, extracted) ==
  /\ LET subjectId == StrTrim(body.subject_id)
         text == StrTrim(body.text)
         extractClaims == body.extract_claims # {FALSE}
         noSupersede == body.no_supersede = {TRUE}
         embedding == IF text = <<>> THEN {} ELSE EmbedResult(text, embedOk)
         id == IF Truthy(body.id) THEN body.id ELSE NextMemoryId
         input == [ id |-> id,
                    project_id |-> p,
                    subject_id |-> subjectId,
                    text |-> text,
                    importance |-> body.importance,
                    confidence |-> body.confidence,
                    embedding |-> embedding ]
         todo == ExtractedClaims(extracted)
     IN /\ UNCHANGED <<claims, claim_assertions, slot_state, claim_edges>>
        /\ IF subjectId = <<>> \/ text = <<>> \/ Len(text) > MaxTextLength
           THEN /\ UNCHANGED <<memories, pending>>
                /\ last' = [op |-> "createMemory", status |-> 400]
           ELSE IF /\ DuplicateGuardApplies(embedding, noSupersede)
                   /\ FindDuplicateMemory(p, subjectId, EmbOf(embedding), DuplicateThreshold) # {}
           THEN /\ UNCHANGED <<memories, pending>>
                /\ last' = [ op |-> "createMemory", status |-> 200,
                             project_id |-> p, subject_id |-> subjectId,
                             id |-> NULL, created |-> FALSE, skipped |-> TRUE,
                             reason |-> "duplicate", events |-> <<>>,
                             embedding |-> embedding, no_supersede |-> noSupersede ]
           ELSE IF ~MemoryInsertOk(input)
           THEN /\ UNCHANGED <<memories, pending>>
                /\ last' = [ op |-> "createMemory", status |-> 500,
                             project_id |-> p, subject_id |-> subjectId,
                             events |-> <<>>,
                             embedding |-> embedding, no_supersede |-> noSupersede ]
           ELSE \E conflicts \in PostMemoryConflicts(p, subjectId, embedding, noSupersede) :
                  LET conflictingIds == TrimIdSeq(conflicts)
                      created == CreateMemoryAfter(memories, input)
                      supersededCount ==
                        IF conflictingIds # <<>>
                        THEN SupersedeMemoriesCount(created, p, subjectId, conflictingIds)
                        ELSE 0
                  IN /\ Cardinality(DOMAIN memories) < MaxMemories
                     /\ memories' =
                          IF conflictingIds # <<>>
                          THEN SupersedeMemoriesAfter(created, p, subjectId, conflictingIds, id)
                          ELSE created
                     /\ pending' =
                          IF extractClaims /\ ~noSupersede /\ todo # <<>>
                          THEN pending \cup {ExtractionTask(p, subjectId, id, todo)}
                          ELSE pending
                     /\ last' =
                          [ op |-> "createMemory", status |-> 201,
                            project_id |-> p, subject_id |-> subjectId,
                            id |-> id, created |-> TRUE,
                            superseded_count |-> supersededCount,
                            superseded_ids |-> conflictingIds,
                            events |->
                              <<Event("memory.created", p, subjectId, [id |-> id])>> \o
                              (IF supersededCount > 0
                               THEN [i \in 1..Len(conflictingIds) |->
                                       Event("memory.superseded", p, subjectId,
                                             [id |-> conflictingIds[i], superseded_by |-> id])]
                               ELSE <<>>),
                            embedding |-> embedding, no_supersede |-> noSupersede,
                            \* the rows findConflictingMemories returned, and whether
                            \* the detached extraction was started
                            conflicts |-> Range(conflicts),
                            extraction_started |-> extractClaims /\ ~noSupersede,
                            extract_claims |-> body.extract_claims ]
  /\ Dispatch

\* the storage calls of POST /api/v1/memories, in the order the handler makes them
MemoryStoreCalls ==
  <<"findDuplicateMemory", "findConflictingMemories", "createMemory", "supersedeMemories">>

\* POST /api/v1/memories when the storage call named failing throws: the
\* handler is left at that call and the catch of the server answers 500.
\* What the calls before it wrote stays written.
PostMemoryFailing(p, body, embedOk, failing) ==
  /\ LET subjectId == StrTrim(body.subject_id)
         text == StrTrim(body.text)
         noSupersede == body.no_supersede = {TRUE}
         embedding == IF text = <<>> THEN {} ELSE EmbedResult(text, embedOk)
         id == IF Truthy(body.id) THEN body.id ELSE NextMemoryId
         input == [ id |-> id,
                    project_id |-> p,
                    subject_id |-> subjectId,
                    text |-> text,
                    importance |-> body.importance,
                    confidence |-> body.confidence,
                    embedding |-> embedding ]
         failed == [ op |-> "createMemory", status |-> 500,
                     project_id |-> p, subject_id |-> subjectId,
                     events |-> <<>>,
                     embedding |-> embedding, no_supersede |-> noSupersede,
                     failed_call |-> failing ]
     IN /\ UNCHANGED <<claims, claim_assertions, slot_state, claim_edges, pending>>
        /\ subjectId # <<>> /\ text # <<>> /\ Len(text) <= MaxTextLength
        /\ last' = failed
        /\ IF failing = "findDuplicateMemory"
           THEN DuplicateGuardApplies(embedding, noSupersede) /\ UNCHANGED memories
           ELSE /\ ~( /\ DuplicateGuardApplies(embedding, noSupersede)
                      /\ FindDuplicateMemory(p, subjectId, EmbOf(embedding), DuplicateThreshold) # {} )
                /\ IF failing = "findConflictingMemories"
                   THEN embedding # {} /\ ~noSupersede /\ UNCHANGED memories
                   ELSE IF failing = "createMemory"
                   THEN UNCHANGED memories
                   ELSE \E conflicts \in PostMemoryConflicts(p, subjectId, embedding, noSupersede) :
                          /\ failing = "supersedeMemories"
                          /\ TrimIdSeq(conflicts) # <<>>
                          /\ MemoryInsertOk(input)
                          /\ Cardinality(DOMAIN memories) < MaxMemories
                          /\ memories' = CreateMemoryAfter(memories, input)
  /\ Dispatch

\* the detached extraction of POST /api/v1/memories: one createClaim per step;
\* an error ends the task (it is caught and logged)
ExtractionStep(t) ==
  /\ LET claim == Head(t.claims)
         input == [ claim_id |-> NextClaimId,
                    project_id |-> t.project_id,
                    subject_id |-> t.subject_id,
                    predicate |-> claim.predicate,
                    object_value |-> claim.object_value,
                    slot |-> NULL,
                    confidence |-> claim.confidence,
                    importance |-> {},
                    source_memory_id |-> t.memory_id ]
     IN /\ t \in pending
        /\ Cardinality(DOMAIN claims) < MaxClaims
        /\ CreateClaim(input)
        /\ pending' =
             IF ClaimInsertOk(Db, memories, input) /\ Tail(t.claims) # <<>>
             THEN (pending \ {t}) \cup {[t EXCEPT !.claims = Tail(t.claims)]}
             ELSE pending \ {t}
        /\ last' = [ op |-> "extractClaims", status |-> IF ClaimInsertOk(Db, memories, input) THEN 201 ELSE 500,
                     project_id |-> t.project_id, claim_id |-> NextClaimId ]
        /\ UNCHANGED <<memories, claim_edges>>
  /\ Dispatch

\* the detached extraction throws (extractionService.extract or a storage
\* error of createClaim): catch (extractErr) logs it and the task is over
ExtractionFails(t) ==
  /\ t \in pending
  /\ pending' = pending \ {t}
  /\ last' = [op |-> "extractClaims", status |-> 500, project_id |-> t.project_id, claim_id |-> NULL]
  /\ UNCHANGED <<memories, claims, claim_assertions, slot_state, claim_edges>>
  /\ Dispatch

PatchBody(text, importance) == [text |-> text, importance |-> importance]

\* PATCH /api/v1/memories/:id
PatchMemory(p, memoryId, body, embedOk) ==
  /\ LET existing == GetMemory(p, memoryId)
         embedding == IF body.text # NULL /\ Trim(body.text) # <<>>
                      THEN EmbedResult(Trim(body.text), embedOk)
                      ELSE {}
         patch == [text |-> body.text, importance |-> body.importance, embedding |-> embedding]
     IN /\ UNCHANGED <<claims, claim_assertions, slot_state, claim_edges, pending>>
        /\ IF existing = {} \/ memories[memoryId].is_deleted
           THEN /\ UNCHANGED memories
                /\ last' = [op |-> "updateMemory", status |-> 404]
           ELSE /\ memories' = UpdateMemoryAfter(p, memoryId, patch)
                /\ last' = [ op |-> "updateMemory", status |-> 200,
                             project_id |-> p, id |-> memoryId,
                             events |-> <<Event("memory.updated", p, memories[memoryId].subject_id,
                                                [id |-> memoryId])>> ]
  /\ Dispatch

\* DELETE /api/v1/memories/:id
DeleteMemory(p, memoryId) ==
  /\ LET existing == GetMemory(p, memoryId)
         deleted == DeleteMatches(p, memoryId)
     IN /\ UNCHANGED <<claims, claim_assertions, slot_state, claim_edges, pending>>
        /\ memories' = DeleteMemoryAfter(p, memoryId)
        /\ last' = [ op |-> "deleteMemory", status |-> 200,
                     project_id |-> p, id |-> memoryId, deleted |-> deleted,
                     events |-> IF deleted /\ existing # {}
                                THEN <<Event("memory.deleted", p, memories[memoryId].subject_id,
                                             [id |-> memoryId])>>
                                ELSE <<>> ]
  /\ Dispatch

\* variant: the handler without its `existing.status === "active"` answer
RestoreMemoryWithoutActiveCheck(p, memoryId) ==
  /\ LET existing == GetMemory(p, memoryId)
     IN /\ UNCHANGED <<claims, claim_assertions, slot_state, claim_edges, pending>>
        /\ IF existing = {}
           THEN /\ UNCHANGED memories
                /\ last' = [ op |-> "restoreMemory", status |-> 404, restored |-> FALSE,
                             error |-> "memory_not_found", project_id |-> p,
                             id |-> memoryId, events |-> <<>> ]
           ELSE IF memories[memoryId].is_deleted
           THEN /\ UNCHANGED memories
                /\ last' = [ op |-> "restoreMemory", status |-> 400, restored |-> FALSE,
                             error |-> "memory_deleted", project_id |-> p,
                             id |-> memoryId, events |-> <<>> ]
           ELSE /\ memories' = RestoreMemoryAfter(p, memoryId)
                /\ last' = [ op |-> "restoreMemory", status |-> 200, restored |-> TRUE,
                             error |-> "", project_id |-> p, id |-> memoryId,
                             events |-> <<Event("memory.updated", p, memories[memoryId].subject_id,
                                                [id |-> memoryId, status |-> "active"])>> ]
  /\ Dispatch

\* POST /api/v1/memories/:id/restore
RestoreMemory(p, memoryId) ==
  /\ LET existing == GetMemory(p, memoryId)
     IN /\ UNCHANGED <<claims, claim_assertions, slot_state, claim_edges, pending>>
        /\ IF existing = {}
           THEN /\ UNCHANGED memories
                /\ last' = [ op |-> "restoreMemory", status |-> 404, restored |-> FALSE,
                             error |-> "memory_not_found", project_id |-> p,
                             id |-> memoryId, events |-> <<>> ]
           ELSE IF memories[memoryId].is_deleted
           THEN /\ UNCHANGED memories
                /\ last' = [ op |-> "restoreMemory", status |-> 400, restored |-> FALSE,
                             error |-> "memory_deleted", project_id |-> p,
                             id |-> memoryId, events |-> <<>> ]
           ELSE IF memories[memoryId].status = "active"
           THEN /\ UNCHANGED memories
                /\ last' = [ op |-> "restoreMemory", status |-> 200, restored |-> FALSE,
                             error |-> "", project_id |-> p, id |-> memoryId,
                             events |-> <<>> ]
           ELSE /\ memories' = RestoreMemoryAfter(p, memoryId)
                /\ last' = [ op |-> "restoreMemory", status |-> 200, restored |-> TRUE,
                             error |-> "", project_id |-> p, id |-> memoryId,
                             events |-> <<Event("memory.updated", p, memories[memoryId].subject_id,
                                                [id |-> memoryId, status |-> "active"])>> ]
  /\ Dispatch

ExtractBody(s, text, learn) == [subject_id |-> s, text |-> text, learn |-> learn]

\* a memory as extractionService.extract returns it (normalizeMemory)
ExtractedMemory(text, importance, confidence, cs) ==
  [text |-> text, importance |-> importance, confidence |-> confidence, claims |-> cs]

\* for (const claim of mem.claims) createClaim(...)
RECURSIVE LearnClaims(_, _, _, _, _, _)
LearnClaims(db, mems, p, subjectId, memoryId, cs) ==
  IF cs = <<>> THEN db
  ELSE LearnClaims(
         CreateClaimDb(db, mems,
                       [ claim_id |-> ClaimIdOf(Cardinality(DOMAIN db.claims) + 1),
                         project_id |-> p,
                         subject_id |-> subjectId,
                         predicate |-> Head(cs).predicate,
                         object_value |-> Head(cs).object_value,
                         slot |-> NULL,
                         confidence |-> Head(cs).confidence,
                         importance |-> {},
                         source_memory_id |-> memoryId ]),
         mems, p, subjectId, memoryId, Tail(cs))

\* for (const mem of extracted.memories): createMemory, emit, the claims.
\* st = [memories, db, events]
RECURSIVE Learn(_, _, _, _, _)
Learn(st, p, subjectId, ms, embedOk) ==
  IF ms = <<>> THEN st
  ELSE LET memoryId == MemIdOf(Cardinality(DOMAIN st.memories) + 1)
           mems == CreateMemoryAfter(st.memories,
                                     [ id |-> memoryId,
                                       project_id |-> p,
                                       subject_id |-> subjectId,
                                       text |-> Head(ms).text,
                                       importance |-> {Head(ms).importance},
                                       confidence |-> {Head(ms).confidence},
                                       embedding |-> EmbedResult(Head(ms).text, embedOk) ])
       IN Learn([ memories |-> mems,
                  db |-> LearnClaims(st.db, mems, p, subjectId, memoryId, Head(ms).claims),
                  events |-> Append(st.events,
                                    Event("memory.created", p, subjectId, [id |-> memoryId])) ],
                p, subjectId, Tail(ms), embedOk)

RECURSIVE CountClaims(_)
CountClaims(ms) == IF ms = <<>> THEN 0 ELSE Len(Head(ms).claims) + CountClaims(Tail(ms))

\* POST /api/v1/memories/extract.  extracted: extracted.memories
ExtractMemories(p, body, extracted, embedOk) ==
  /\ LET subjectId == StrTrim(body.subject_id)
         text == StrTrim(body.text)
         learned == Learn([memories |-> memories, db |-> Db, events |-> <<>>],
                          p, subjectId, extracted, embedOk)
     IN /\ UNCHANGED <<claim_edges, pending>>
        /\ IF subjectId = <<>> \/ text = <<>>
           THEN /\ UNCHANGED <<memories, claims, claim_assertions, slot_state>>
                /\ last' = [op |-> "extract", status |-> 400]
           ELSE IF ~body.learn
           THEN /\ UNCHANGED <<memories, claims, claim_assertions, slot_state>>
                /\ last' = [ op |-> "extract", status |-> 200, learned |-> FALSE,
                             extracted_count |-> Len(extracted) ]
           ELSE /\ Cardinality(DOMAIN memories) + Len(extracted) <= MaxMemories
                /\ Cardinality(DOMAIN claims) + CountClaims(extracted) <= MaxClaims
                /\ memories' = learned.memories
                /\ claims' = learned.db.claims
                /\ claim_assertions' = learned.db.claim_assertions
                /\ slot_state' = learned.db.slot_state
                /\ last' = [ op |-> "extract", status |-> 200, learned |-> TRUE,
                             project_id |-> p, subject_id |-> subjectId,
                             learned_memory_count |-> Len(extracted),
                             learned_claim_count |-> CountClaims(extracted),
                             events |-> learned.events ]
  /\ Dispatch

(***************************************************************************)
(* Handlers in steps.  A handler awaits each storage call, and another     *)
(* request may be served between two calls.  A handler that has made its   *)
(* reads is kept in pending until it makes its writes.                     *)
(***************************************************************************)

MaxInFlight == 2

InFlight == {t \in pending : "handler" \in DOMAIN t}

Reading(name) == [op |-> name, status |-> 0]

\* POST /api/v1/memories up to findConflictingMemories
PostMemoryRead(p, body, embedOk) ==
  /\ LET subjectId == StrTrim(body.subject_id)
         text == StrTrim(body.text)
         noSupersede == body.no_supersede = {TRUE}
         embedding == IF text = <<>> THEN {} ELSE EmbedResult(text, embedOk)
     IN /\ UNCHANGED <<memories, claims, claim_assertions, slot_state, claim_edges>>
        /\ Cardinality(InFlight) < MaxInFlight
        /\ IF subjectId = <<>> \/ text = <<>> \/ Len(text) > MaxTextLength
           THEN /\ UNCHANGED pending
                /\ last' = [op |-> "createMemory", status |-> 400]
           ELSE IF /\ DuplicateGuardApplies(embedding, noSupersede)
                   /\ FindDuplicateMemory(p, subjectId, EmbOf(embedding), DuplicateThreshold) # {}
           THEN /\ UNCHANGED pending
                /\ last' = [ op |-> "createMemory", status |-> 200,
                             project_id |-> p, subject_id |-> subjectId,
                             id |-> NULL, created |-> FALSE, skipped |-> TRUE,
                             reason |-> "duplicate", events |-> <<>>,
                             embedding |-> embedding, no_supersede |-> noSupersede ]
           ELSE \E conflicts \in PostMemoryConflicts(p, subjectId, embedding, noSupersede) :
                  /\ pending' = pending \cup
                       {[ handler |-> "createMemory",
                          project_id |-> p,
                          subject_id |-> subjectId,
                          text |-> text,
                          id |-> body.id,
                          importance |-> body.importance,
                          confidence |-> body.confidence,
                          embedding |-> embedding,
                          no_supersede |-> noSupersede,
                          conflictingIds |-> TrimIdSeq(conflicts) ]}
                  /\ last' = Reading("createMemory")
  /\ Dispatch

\* POST /api/v1/memories from createMemory on: insert, supersede, emit, answer.
\* The requests served in steps carry no text to extract claims from.
PostMemoryWrite(t) ==
  /\ LET id == IF Truthy(t.id) THEN t.id ELSE NextMemoryId
         input == [ id |-> id,
                    project_id |-> t.project_id,
                    subject_id |-> t.subject_id,
                    text |-> t.text,
                    importance |-> t.importance,
                    confidence |-> t.confidence,
                    embedding |-> t.embedding ]
         created == CreateMemoryAfter(memories, input)
         supersededCount ==
           IF t.conflictingIds # <<>>
           THEN SupersedeMemoriesCount(created, t.project_id, t.subject_id, t.conflictingIds)
           ELSE 0
     IN /\ UNCHANGED <<claims, claim_assertions, slot_state, claim_edges>>
        /\ t \in InFlight
        /\ t.handler = "createMemory"
        /\ pending' = pending \ {t}
        /\ IF ~MemoryInsertOk(input)
           THEN /\ UNCHANGED memories
                /\ last' = [ op |-> "createMemory", status |-> 500,
                             project_id |-> t.project_id, subject_id |-> t.subject_id,
                             events |-> <<>>,
                             embedding |-> t.embedding, no_supersede |-> t.no_supersede ]
           ELSE /\ Cardinality(DOMAIN memories) < MaxMemories
                /\ memories' =
                     IF t.conflictingIds # <<>>
                     THEN SupersedeMemoriesAfter(created, t.project_id, t.subject_id,
                                                 t.conflictingIds, id)
                     ELSE created
                /\ last' =
                     [ op |-> "createMemory", status |-> 201,
                       project_id |-> t.project_id, subject_id |-> t.subject_id,
                       id |-> id, created |-> TRUE,
                       superseded_count |-> supersededCount,
                       superseded_ids |-> t.conflictingIds,
                       events |->
                         <<Event("memory.created", t.project_id, t.subject_id, [id |-> id])>> \o
                         (IF supersededCount > 0
                          THEN [i \in 1..Len(t.conflictingIds) |->
                                  Event("memory.superseded", t.project_id, t.subject_id,
                                        [id |-> t.conflictingIds[i], superseded_by |-> id])]
                          ELSE <<>>),
                       embedding |-> t.embedding, no_supersede |-> t.no_supersede ]
  /\ Dispatch

\* DELETE /api/v1/memories/:id: const existing = await getMemory(...)
DeleteMemoryRead(p, memoryId) ==
  /\ /\ UNCHANGED <<memories, claims, claim_assertions, slot_state, claim_edges>>
     /\ Cardinality(InFlight) < MaxInFlight
     /\ pending' = pending \cup
          {[ handler |-> "deleteMemory", project_id |-> p, id |-> memoryId,
             existing |-> GetMemory(p, memoryId) ]}
     /\ last' = Reading("deleteMemory")
  /\ Dispatch

\* DELETE /api/v1/memories/:id: deleteMemory, the event, the answer
DeleteMemoryWrite(t) ==
  /\ LET deleted == DeleteMatches(t.project_id, t.id)
     IN /\ UNCHANGED <<claims, claim_assertions, slot_state, claim_edges>>
        /\ t \in InFlight
        /\ t.handler = "deleteMemory"
        /\ pending' = pending \ {t}
        /\ memories' = DeleteMemoryAfter(t.project_id, t.id)
        /\ last' = [ op |-> "deleteMemory", status |-> 200,
                     project_id |-> t.project_id, id |-> t.id, deleted |-> deleted,
                     events |-> IF deleted /\ t.existing # {}
                                THEN <<Event("memory.deleted", t.project_id,
                                             (CHOOSE row \in t.existing : TRUE).subject_id,
                                             [id |-> t.id])>>
                                ELSE <<>> ]
  /\ Dispatch

\* PATCH /api/v1/memories/:id up to the embedding of the new text
PatchMemoryRead(p, memoryId, body, embedOk) ==
  /\ LET existing == GetMemory(p, memoryId)
         embedding == IF body.text # NULL /\ Trim(body.text) # <<>>
                      THEN EmbedResult(Trim(body.text), embedOk)
                      ELSE {}
     IN /\ UNCHANGED <<memories, claims, claim_assertions, slot_state, claim_edges>>
        /\ Cardinality(InFlight) < MaxInFlight
        /\ IF existing = {} \/ memories[memoryId].is_deleted
           THEN /\ UNCHANGED pending
                /\ last' = [op |-> "updateMemory", status |-> 404]
           ELSE /\ pending' = pending \cup
                     {[ handler |-> "updateMemory", project_id |-> p, id |-> memoryId,
                        patch |-> [ text |-> body.text, importance |-> body.importance,
                                    embedding |-> embedding ] ]}
                /\ last' = Reading("updateMemory")
  /\ Dispatch

\* PATCH /api/v1/memories/:id: updateMemory, the event, the answer
PatchMemoryWrite(t) ==
  /\ /\ UNCHANGED <<claims, claim_assertions, slot_state, claim_edges>>
     /\ t \in InFlight
     /\ t.handler = "updateMemory"
     /\ pending' = pending \ {t}
     /\ IF GetMemory(t.project_id, t.id) = {}
        THEN /\ UNCHANGED memories
             /\ last' = [op |-> "updateMemory", status |-> 404]
        ELSE /\ memories' = UpdateMemoryAfter(t.project_id, t.id, t.patch)
             /\ last' = [ op |-> "updateMemory", status |-> 200,
                          project_id |-> t.project_id, id |-> t.id,
                          events |-> <<Event("memory.updated", t.project_id,
                                             memories[t.id].subject_id, [id |-> t.id])>> ]
  /\ Dispatch

(***************************************************************************)
(* Search: PostgresCoreStore.searchMemories                                *)
(***************************************************************************)

\* m.text ILIKE ('%' || q || '%'), on an alphabet without upper case, % or _
Contains(text, q) ==
  \E i \in 0..(Len(text) - Len(q)) : SubSeq(text, i + 1, i + Len(q)) = q

\* split(/\s+/) ... filter(Boolean)
RECURSIVE Split(_, _)
Split(str, word) ==
  IF str = <<>> THEN (IF word = <<>> THEN <<>> ELSE <<word>>)
  ELSE IF IsWs(Head(str))
       THEN (IF word = <<>> THEN <<>> ELSE <<word>>) \o Split(Tail(str), <<>>)
       ELSE Split(Tail(str), Append(word, Head(str)))

\* the members of SEARCH_STOP_WORDS a query of the model can contain
SearchStopWords == {<<"i", "s">>, <<"m", "y">>, <<"t", "h", "e">>, <<"t", "o">>}

RECURSIVE Dedupe(_, _)
Dedupe(sq, seen) ==
  IF sq = <<>> THEN <<>>
  ELSE IF Head(sq) \in seen THEN Dedupe(Tail(sq), seen)
       ELSE <<Head(sq)>> \o Dedupe(Tail(sq), seen \cup {Head(sq)})

MaxSearchTokens == 10

BuildSearchTokens(query) ==
  LET filtered == SelectSeq(Split(query, <<>>),
                            LAMBDA token : Len(token) >= 2 /\ token \notin SearchStopWords)
      out == Dedupe(filtered, {})
  IN Range(SubSeq(out, 1, Min(MaxSearchTokens, Len(out))))

\* the CASE of the SELECT list: 20 for the whole query, 16 for a token, else 0
LexicalBonus(text, q) ==
  IF q # <<>> /\ Contains(text, q) THEN 20
  ELSE IF \E token \in BuildSearchTokens(q) : Contains(text, token) THEN 16
  ELSE 0

LexicalMatch(text, q) ==
  q = <<>> \/ Contains(text, q) \/ \E token \in BuildSearchTokens(q) : Contains(text, token)

\* score of a row, x1
SearchScore(row, vector) ==
  IF vector = {} \/ row.embedding = {} THEN 0
  ELSE Similarity(EmbOf(row.embedding), EmbOf(vector))

\* effective_score of a row, x100
SearchEffectiveScore(row, q, vector) ==
  IF vector # {}
  THEN 60 * SearchScore(row, vector) + 25 * row.importance + 15 * row.confidence
       + 100 * LexicalBonus(row.text, q)
  ELSE 25 * row.importance + 15 * row.confidence

SearchWhere(mems, p, s, q, vector, minScore) ==
  {id \in DOMAIN mems :
     /\ mems[id].project_id = p
     /\ mems[id].subject_id = s
     /\ ~mems[id].is_deleted
     /\ mems[id].status = "active"
     /\ \/ LexicalMatch(mems[id].text, q)
        \/ vector # {} /\ mems[id].embedding # {} /\ SearchScore(mems[id], vector) >= minScore}

\* ORDER BY effective_score DESC, score DESC (with a vector);
\* ORDER BY importance DESC, created_at DESC (without)
SearchBefore(mems, a, b, q, vector) ==
  IF vector # {}
  THEN \/ SearchEffectiveScore(mems[a], q, vector) > SearchEffectiveScore(mems[b], q, vector)
       \/ /\ SearchEffectiveScore(mems[a], q, vector) = SearchEffectiveScore(mems[b], q, vector)
          /\ SearchScore(mems[a], vector) > SearchScore(mems[b], vector)
  ELSE \/ mems[a].importance > mems[b].importance
       \/ mems[a].importance = mems[b].importance /\ mems[a].created_at > mems[b].created_at

\* ORDER BY ... LIMIT n: the sets of rows a sorted, truncated result may hold
TopSets(ids, n, Before(_, _)) ==
  {T \in SUBSET ids : /\ Cardinality(T) = Min(n, Cardinality(ids))
                      /\ \A x \in T, y \in ids \ T : ~Before(y, x)}

DefaultSearchLimit == 25

DefaultMinScore == 30

\* searchMemories: the sets of ids it may return.  limit and min_score are {}
\* when absent.
SearchMemories(mems, p, s, query, vector, limit, minScore) ==
  LET q == StrTrim(query)
  IN TopSets(SearchWhere(mems, p, s, q, vector, ClampFloat(minScore, 0, 100, DefaultMinScore)),
             ClampInt(limit, 1, 200, DefaultSearchLimit),
             LAMBDA a, b : SearchBefore(mems, a, b, q, vector))

(***************************************************************************)
(* Retrieval: recallService.ts                                             *)
(***************************************************************************)

\* clampInt(args.limit || 25, 1, 200)
RecallLimit(limit) ==
  IF limit = {} \/ NumOf(limit) = 0 THEN DefaultSearchLimit
  ELSE IF NumOf(limit) < 1 THEN 1
  ELSE IF NumOf(limit) > 200 THEN 200
  ELSE NumOf(limit)

\* Number.isFinite(Number(args.min_score)) ? Number(args.min_score) : 30
RecallMinScore(minScore) == IF minScore = {} THEN {DefaultMinScore} ELSE minScore

\* asStringArray(value).slice(0, 3)
AsStringArray3(value) ==
  LET kept == SelectSeq([i \in 1..Len(value) |-> StrTrim(value[i])], LAMBDA x : x # <<>>)
  IN SubSeq(kept, 1, Min(3, Len(kept)))

RecallModes == {"broad", "direct", "indirect"}

\* classifyRecallQuery: raw holds the JSON the model answered, and is empty
\* when the call threw
Classify(raw) ==
  IF raw = {}
  THEN [mode |-> "indirect", predicates |-> <<>>, searchHints |-> <<>>, expandedQueries |-> <<>>]
  ELSE LET parsed == CHOOSE x \in raw : TRUE
       IN [ mode |-> IF parsed.mode \in RecallModes THEN parsed.mode ELSE "indirect",
            predicates |-> AsStringArray3(parsed.predicates),
            searchHints |-> AsStringArray3(parsed.search_hints),
            expandedQueries |-> AsStringArray3(parsed.expanded_queries) ]

\* dedupeQueries(items).slice(0, 6)
RECURSIVE DedupeQueries(_, _)
DedupeQueries(items, seen) ==
  IF items = <<>> THEN <<>>
  ELSE IF Trim(Head(items)) = <<>> \/ Trim(Head(items)) \in seen
       THEN DedupeQueries(Tail(items), seen)
       ELSE <<Trim(Head(items))>> \o DedupeQueries(Tail(items), seen \cup {Trim(Head(items))})

MaxRecallQueries == 6

RecallQueries(query, classified) ==
  LET all == DedupeQueries(<<query>> \o classified.searchHints \o
                           (IF classified.mode = "indirect" THEN classified.expandedQueries
                            ELSE <<>>), {})
  IN SubSeq(all, 1, Min(MaxRecallQueries, Len(all)))

ClaimBackedScore == 1200000

\* effective_score x10000 of the rows of one group: x (1 - rank * 0.03)
SearchGroup(mems, ids, q, vector, rank) ==
  [id \in ids |-> SearchEffectiveScore(mems[id], q, vector) * (100 - 3 * rank)]

\* byId: a row keeps the highest boosted effective_score of its groups
MergeGroup(acc, group) ==
  [id \in DOMAIN acc \cup DOMAIN group |->
     IF id \notin DOMAIN acc THEN group[id]
     ELSE IF id \notin DOMAIN group THEN acc[id]
     ELSE Max(acc[id], group[id])]

\* the searches of queries[rank + 1 ..], each ending in one of the results the
\* store may give
RECURSIVE RecallSearches(_, _, _, _, _, _, _, _, _)
RecallSearches(mems, p, s, queries, rank, limit, minScore, embedOk, acc) ==
  IF rank >= Len(queries) THEN {acc}
  ELSE UNION { RecallSearches(mems, p, s, queries, rank + 1, limit, minScore, embedOk,
                              MergeGroup(acc,
                                         SearchGroup(mems, T, queries[rank + 1],
                                                     EmbedResult(queries[rank + 1], embedOk),
                                                     rank)))
               : T \in SearchMemories(mems, p, s, queries[rank + 1],
                                      EmbedResult(queries[rank + 1], embedOk),
                                      {Min(limit * 2, 200)}, minScore) }

\* variant: a claim's source memory is a candidate although it is deleted
ClaimBackedIgnoringDeleted(mems, truth, p, predicates) ==
  {id \in {row.source_memory_id : row \in {r \in truth : r.predicate \in Range(predicates)}} :
     /\ id # NULL
     /\ id \in DOMAIN mems
     /\ mems[id].project_id = p
     /\ mems[id].status = "active"}

\* the sources of the truth rows of the predicates: getMemory by project and
\* id, skipped when !mem || mem.is_deleted || mem.status !== "active"
ClaimBacked(mems, truth, p, predicates) ==
  {id \in {row.source_memory_id : row \in {r \in truth : r.predicate \in Range(predicates)}} :
     /\ id # NULL
     /\ id \in DOMAIN mems
     /\ mems[id].project_id = p
     /\ ~mems[id].is_deleted
     /\ mems[id].status = "active"}

RerankMinTextLength == 10

\* rerankMemories: the sets it may keep.  The judge may select any entries,
\* at most topK are kept; when it fails the first topK are.
Rerank(mems, candidates, topK) ==
  LET filtered == {id \in candidates : Len(StrTrim(mems[id].text)) >= RerankMinTextLength}
  IN IF filtered = {} THEN {{}}
     ELSE IF Cardinality(filtered) <= topK THEN {filtered}
     ELSE {T \in SUBSET filtered : Cardinality(T) <= topK}

BroadMinimum == 20

DirectMaximum == 5

\* mode broad: listMemories, sorted by importance then created_at, both descending
RecallBroad(mems, p, s, limit) ==
  TopSets(Range(ListMemories(mems, p, s, {Min(limit * 3, 200)}, {0}, FALSE, FALSE)),
          Max(limit, BroadMinimum),
          LAMBDA a, b : \/ mems[a].importance > mems[b].importance
                        \/ /\ mems[a].importance = mems[b].importance
                           /\ mems[a].created_at > mems[b].created_at)

\* the final choice among the merged candidates
RecallSelect(mems, byId, mode, hasClaimResults, limit) ==
  IF mode = "direct" /\ hasClaimResults
  THEN TopSets(DOMAIN byId, Min(limit, DirectMaximum), LAMBDA a, b : byId[a] > byId[b])
  ELSE IF Cardinality(DOMAIN byId) > limit THEN Rerank(mems, DOMAIN byId, limit)
  ELSE IF mode = "direct"
  THEN TopSets(DOMAIN byId, Min(limit, DirectMaximum), LAMBDA a, b : byId[a] > byId[b])
  ELSE {DOMAIN byId}

RecallArgs(query, limit, minScore) == [query |-> query, limit |-> limit, min_score |-> minScore]

\* createLLMRecallService.search: the sets of memory ids it may return.
\* truth is getCurrentTruth of the subject; raw the answer of the classifier.
RecallSearch(mems, truth, p, s, args, raw, embedOk) ==
  LET query == StrTrim(args.query)
      limit == RecallLimit(args.limit)
      minScore == RecallMinScore(args.min_score)
      classified == Classify(raw)
      claimIds == IF classified.mode = "direct" /\ classified.predicates # <<>>
                  THEN ClaimBacked(mems, truth, p, classified.predicates)
                  ELSE {}
      claimGroup == [id \in claimIds |-> ClaimBackedScore]
  IN IF query = <<>> THEN {{}}
     ELSE IF classified.mode = "broad" THEN RecallBroad(mems, p, s, limit)
     ELSE UNION { RecallSelect(mems, MergeGroup(byId, claimGroup), classified.mode,
                               claimIds # {}, limit)
                  : byId \in RecallSearches(mems, p, s, RecallQueries(query, classified), 0,
                                            limit, minScore, embedOk, <<>>) }

\* createSimpleRecallService.search
SimpleRecallSearch(mems, p, s, args, embedOk) ==
  SearchMemories(mems, p, s, StrTrim(args.query),
                 IF StrTrim(args.query) = <<>> THEN {} ELSE EmbedResult(StrTrim(args.query), embedOk),
                 {RecallLimit(args.limit)}, RecallMinScore(args.min_score))

(***************************************************************************)
(* HTTP handlers: query parameters of the GET routes.  A parameter is NULL  *)
(* when the URL does not carry it (searchParams.get returns null).  Numbers *)
(* are kept in tenths, so that Math.floor has something to cut.            *)
(***************************************************************************)

DigitValues == <<"0", "1", "2", "3", "4", "5", "6", "7", "8", "9">>

IsDigit(c) == \E i \in DOMAIN DigitValues : DigitValues[i] = c

DigitValue(c) == (CHOOSE i \in DOMAIN DigitValues : DigitValues[i] = c) - 1

RECURSIVE Decimal(_)
Decimal(ds) ==
  IF ds = <<>> THEN 0 ELSE 10 * Decimal(SubSeq(ds, 1, Len(ds) - 1)) + DigitValue(ds[Len(ds)])

\* Number(raw), in tenths; {} is NaN.  null and the blank string are 0; a
\* string is a number when it is [+-] digits [. digits] or [+-] . digits
\* (strings with an exponent, a radix prefix or "Infinity" are not among the
\* inputs).  Of the fraction the first digit is kept.
NumberOf(raw) ==
  IF raw = NULL \/ Trim(raw) = <<>> THEN {0}
  ELSE LET t == Trim(raw)
           signed == Head(t) \in {"-", "+"}
           body == IF signed THEN Tail(t) ELSE t
           dots == {i \in DOMAIN body : body[i] = "."}
           whole == IF dots = {} THEN body
                    ELSE SubSeq(body, 1, (CHOOSE i \in dots : TRUE) - 1)
           frac == IF dots = {} THEN <<>>
                   ELSE SubSeq(body, (CHOOSE i \in dots : TRUE) + 1, Len(body))
           tenths == 10 * Decimal(whole) + (IF frac = <<>> THEN 0 ELSE DigitValue(frac[1]))
       IN IF /\ Cardinality(dots) <= 1
             /\ Len(whole) + Len(frac) > 0
             /\ \A i \in DOMAIN whole : IsDigit(whole[i])
             /\ \A i \in DOMAIN frac : IsDigit(frac[i])
          THEN {IF Head(t) = "-" THEN 0 - tenths ELSE tenths}
          ELSE {}

\* parseIntInRange
ParseIntInRange(raw, fallback, min, max) ==
  LET n == NumberOf(raw)
  IN IF n = {} THEN fallback
     ELSE IF NumOf(n) < 10 * min THEN min
     ELSE IF NumOf(n) > 10 * max THEN max
     ELSE NumOf(n) \div 10

\* parseBool
ParseBool(raw, fallback) == IF raw = NULL THEN fallback ELSE raw = <<"t", "r", "u", "e">>

\* GET /api/v1/memories
GetMemories(p, subjectParam, limitParam, offsetParam) ==
  LET subjectId == StrTrim(subjectParam)
      limit == ParseIntInRange(limitParam, 50, 1, 200)
      offset == ParseIntInRange(offsetParam, 0, 0, 1000000)
  IN /\ last' = IF subjectId = <<>>
               THEN [op |-> "listMemories", status |-> 400, param |-> limitParam]
               ELSE [ op |-> "listMemories", status |-> 200, param |-> limitParam,
                      limit |-> ClampInt({limit}, 1, 200, 50),
                      data |-> ListMemories(memories, p, subjectId, {limit}, {offset},
                                            ParseBool(NULL, FALSE), ParseBool(NULL, FALSE)) ]
     /\ UNCHANGED <<memories, claims, claim_assertions, slot_state, claim_edges, pending>>
     /\ Dispatch

\* GET /api/v1/memories/superseded
GetSuperseded(p, subjectParam, limitParam, offsetParam) ==
  LET subjectId == StrTrim(subjectParam)
      limit == ParseIntInRange(limitParam, 50, 1, 200)
      offset == ParseIntInRange(offsetParam, 0, 0, 1000000)
  IN /\ last' = IF subjectId = <<>>
               THEN [op |-> "listSuperseded", status |-> 400, param |-> limitParam]
               ELSE [ op |-> "listSuperseded", status |-> 200, param |-> limitParam,
                      limit |-> ClampInt({limit}, 1, 200, 50),
                      data |-> ListSupersededMemories(memories, p, subjectId, {limit}, {offset}) ]
     /\ UNCHANGED <<memories, claims, claim_assertions, slot_state, claim_edges, pending>>
     /\ Dispatch

\* GET /api/v1/memories/search, answered by the store (engine "fallback")
GetSearch(p, subjectParam, qParam, limitParam, embedOk) ==
  LET subjectId == StrTrim(subjectParam)
      q == StrTrim(qParam)
      limit == ParseIntInRange(limitParam, 25, 1, 200)
  IN /\ IF subjectId = <<>> \/ q = <<>>
        THEN last' = [op |-> "search", status |-> 400, param |-> limitParam]
        ELSE \E ids \in SearchMemories(memories, p, subjectId, q, EmbedResult(q, embedOk),
                                       {limit}, {DefaultMinScore}) :
               last' = [ op |-> "search", status |-> 200, param |-> limitParam,
                         limit |-> ClampInt({limit}, 1, 200, DefaultSearchLimit),
                         data |-> ids ]
     /\ UNCHANGED <<memories, claims, claim_assertions, slot_state, claim_edges, pending>>
     /\ Dispatch

\* GET /api/v1/memories/recalls?memory_id=...: getRecallEventsByMemory with
\* LIMIT limit.  No recall event is recorded in these runs, so data is empty.
GetRecalls(p, memoryParam, limitParam) ==
  LET memoryId == StrTrim(memoryParam)
      limit == ParseIntInRange(limitParam, 100, 1, 1000)
  IN /\ last' = IF memoryId = <<>>
               THEN [op |-> "recalls", status |-> 400, param |-> limitParam]
               ELSE [ op |-> "recalls", status |-> 200, param |-> limitParam,
                      limit |-> ClampInt({limit}, 1, 1000, 100), data |-> <<>> ]
     /\ UNCHANGED <<memories, claims, claim_assertions, slot_state, claim_edges, pending>>
     /\ Dispatch

(***************************************************************************)
(* Concurrent transactions of createClaim and retractClaim.  Each runs on  *)
(* its own client at READ COMMITTED: a statement sees the committed rows   *)
(* and the transaction's own writes; a write waits while another open      *)
(* transaction holds an uncommitted write of the same row.  An open        *)
(* transaction is kept in pending with its position and its writes.        *)
(***************************************************************************)

MaxTransactions == 2

Transactions == {t \in pending : "tx" \in DOMAIN t}

Overlay(f, g) == [x \in DOMAIN f \cup DOMAIN g |-> IF x \in DOMAIN g THEN g[x] ELSE f[x]]

NoWrites == [claims |-> <<>>, claim_assertions |-> {}, slot_state |-> <<>>, claim_edges |-> {}]

\* what a statement of transaction t reads
TxView(t) ==
  [ claims |-> Overlay(claims, t.w.claims),
    claim_assertions |-> claim_assertions \cup t.w.claim_assertions,
    slot_state |-> Overlay(slot_state, t.w.slot_state) ]

\* the row lock of a claims row / a slot_state row is held by another transaction
ClaimLocked(t, cid) == \E u \in Transactions \ {t} : cid \in DOMAIN u.w.claims

SlotLocked(t, k) == \E u \in Transactions \ {t} : k \in DOMAIN u.w.slot_state

TakenClaimIds ==
  DOMAIN claims \cup {u.input.claim_id : u \in {x \in Transactions : x.tx = "createClaim"}}

\* claim_id: `clm_${randomUUID()}`, an id no row and no open transaction has
FreshClaimId ==
  ClaimIdOf(CHOOSE i \in 1..MaxClaims :
              /\ ClaimIdOf(i) \notin TakenClaimIds
              /\ \A j \in 1..(i - 1) : ClaimIdOf(j) \in TakenClaimIds)

\* asserted_at DEFAULT NOW() is the time the transaction began: the claims
\* that had an id by then
ClaimsBegun == [claims |-> [c \in TakenClaimIds |-> 0]]

\* client.query("BEGIN") of createClaim
BeginCreateClaim(input) ==
  /\ Cardinality(Transactions) < MaxTransactions
  /\ Cardinality(TakenClaimIds) < MaxClaims
  /\ pending' = pending \cup
       {[ tx |-> "createClaim", pc |-> 1, claim |-> NULL, previous |-> NULL, w |-> NoWrites,
          began |-> ClaimsBegun,
          input |-> [input EXCEPT !.claim_id = FreshClaimId] ]}
  /\ last' = Reading("createClaim")
  /\ UNCHANGED <<memories, claims, claim_assertions, slot_state, claim_edges>>
  /\ Dispatch

\* client.query("BEGIN") of retractClaim
BeginRetractClaim(p, cid, reason) ==
  /\ Cardinality(Transactions) < MaxTransactions
  /\ \A u \in Transactions : u.tx = "retractClaim" => u.input.claim_id # cid
  /\ pending' = pending \cup
       {[ tx |-> "retractClaim", pc |-> 1, claim |-> NULL, previous |-> NULL, w |-> NoWrites,
          began |-> ClaimsBegun,
          input |-> [project_id |-> p, claim_id |-> cid, reason |-> reason] ]}
  /\ last' = Reading("retractClaim")
  /\ UNCHANGED <<memories, claims, claim_assertions, slot_state, claim_edges>>
  /\ Dispatch

\* COMMIT: the writes of t become the committed rows
Commit(t) ==
  /\ claims' = Overlay(claims, t.w.claims)
  /\ claim_assertions' = claim_assertions \cup t.w.claim_assertions
  /\ slot_state' = Overlay(slot_state, t.w.slot_state)
  /\ claim_edges' = claim_edges \cup
       {e \in t.w.claim_edges : ~\E x \in claim_edges : EdgeKey(x) = EdgeKey(e)}
  /\ pending' = pending \ {t}

\* t goes on to its next statement with writes w
Proceed(t, w) ==
  /\ pending' = (pending \ {t}) \cup {[t EXCEPT !.pc = t.pc + 1, !.w = w]}
  /\ UNCHANGED <<claims, claim_assertions, slot_state, claim_edges>>

\* the next statement of an open createClaim: 1 INSERT INTO claims, 2 INSERT
\* INTO claim_assertions, 3 the slot_state upsert, 4 COMMIT
CreateClaimStep(t) ==
  /\ t \in Transactions /\ t.tx = "createClaim"
  /\ UNCHANGED memories
  /\ CASE t.pc = 1 ->
            /\ Proceed(t, [t.w EXCEPT !.claims =
                             Upsert(t.w.claims, t.input.claim_id, CreateClaimRow(t.began, t.input))])
            /\ last' = Reading("createClaim")
       [] t.pc = 2 ->
            /\ Proceed(t, [t.w EXCEPT !.claim_assertions = {CreateClaimAssertion(t.input)}])
            /\ last' = Reading("createClaim")
       [] t.pc = 3 ->
            /\ ~SlotLocked(t, SlotKey(t.input.project_id, t.input.subject_id,
                                      CreateClaimSlot(t.input)))
            /\ Proceed(t, [t.w EXCEPT !.slot_state = CreateClaimSlotState(t.w, t.input)])
            /\ last' = Reading("createClaim")
       [] OTHER ->
            /\ Commit(t)
            /\ last' = [ op |-> "createClaim", status |-> 0, committed |-> TRUE,
                         claim_id |-> t.input.claim_id ]
  /\ Dispatch

\* the next statement of an open retractClaim: 1 the SELECT of the claim
\* (ROLLBACK when there is none), 2 UPDATE claims, 3 the SELECT of the previous
\* claim, 4 the slot_state upsert, 5 the INSERT of the edge, 6 COMMIT
RetractClaimStep(t) ==
  /\ t \in Transactions /\ t.tx = "retractClaim"
  /\ UNCHANGED memories
  /\ LET p == t.input.project_id
         cid == t.input.claim_id
         view == TxView(t).claims
     IN CASE t.pc = 1 ->
               IF cid \in DOMAIN view /\ view[cid].project_id = p
               THEN /\ pending' = (pending \ {t}) \cup {[t EXCEPT !.pc = 2, !.claim = view[cid]]}
                    /\ UNCHANGED <<claims, claim_assertions, slot_state, claim_edges>>
                    /\ last' = Reading("retractClaim")
               ELSE /\ pending' = pending \ {t}
                    /\ UNCHANGED <<claims, claim_assertions, slot_state, claim_edges>>
                    /\ last' = [ op |-> "retractClaim", status |-> 0, committed |-> FALSE,
                                 claim_id |-> cid ]
          [] t.pc = 2 ->
               /\ ~ClaimLocked(t, cid)
               /\ Proceed(t, [t.w EXCEPT !.claims =
                                Upsert(t.w.claims, cid,
                                       [claims[cid] EXCEPT !.status = "retracted",
                                                           !.retract_reason = t.input.reason])])
               /\ last' = Reading("retractClaim")
          [] t.pc = 3 ->
               /\ pending' = (pending \ {t}) \cup
                    {[t EXCEPT !.pc = 4,
                               !.previous = Previous(view, p, t.claim.subject_id, t.claim.slot, cid)]}
               /\ UNCHANGED <<claims, claim_assertions, slot_state, claim_edges>>
               /\ last' = Reading("retractClaim")
          [] t.pc = 4 ->
               /\ ~SlotLocked(t, SlotKey(p, t.claim.subject_id, t.claim.slot))
               /\ Proceed(t, [t.w EXCEPT !.slot_state =
                                Upsert(t.w.slot_state, SlotKey(p, t.claim.subject_id, t.claim.slot),
                                       [ active_claim_id |-> t.previous,
                                         status |-> RetractSlotStatus(t.previous),
                                         replaced_by_claim_id |-> cid ])])
               /\ last' = Reading("retractClaim")
          [] t.pc = 5 ->
               /\ Proceed(t, [t.w EXCEPT !.claim_edges =
                                IF t.previous # NULL
                                THEN {[ project_id |-> p,
                                        subject_id |-> t.claim.subject_id,
                                        from_claim_id |-> cid,
                                        to_claim_id |-> t.previous,
                                        edge_type |-> "retracts",
                                        reason_text |-> t.input.reason ]}
                                ELSE {}])
               /\ last' = Reading("retractClaim")
          [] OTHER ->
               /\ Commit(t)
               /\ last' = [ op |-> "retractClaim", status |-> 0, committed |-> TRUE,
                            claim_id |-> cid ]
  /\ Dispatch

(***************************************************************************)
(* Specifications                                                          *)
(***************************************************************************)

Init ==
  /\ memories = <<>>
  /\ claims = <<>>
  /\ claim_assertions = {}
  /\ slot_state = <<>>
  /\ claim_edges = {}
  /\ pending = {}
  /\ last = [op |-> "none", status |-> 0]
  /\ subscribers = <<>>
  /\ inbox = <<>>
  /\ handles = {}

WithClaimId(body, cid) ==
  [ subject_id |-> body.subject_id, predicate |-> body.predicate, slot |-> body.slot,
    object_value |-> body.object_value, confidence |-> body.confidence,
    importance |-> body.importance, source_memory_id |-> body.source_memory_id,
    claim_id |-> cid ]

NextClaims ==
  \/ \E r \in ClaimRequests : PostClaim(r.project_id, WithClaimId(r, NULL))
  \/ \E p \in Projects, c \in ClaimIds, r \in ReasonInputs : PostRetract(p, c, r)

SpecClaims == Init /\ [][NextClaims]_vars

\* the statements of the two transactions that may be made to throw
CreateFailPoints == {2, 3}

RetractFailPoints == {3, 5}

\* requests with an explicit claim_id, and one whose source memory does not exist
AtomicClaimRequests ==
  { ClaimBody(<<"p">>, <<"s">>, <<"k">>, NULL, <<"v">>, {30}, {}, NULL),
    ClaimBody(<<"p">>, <<"s">>, <<"k">>, NULL, <<"w">>, {90}, {}, NULL),
    ClaimBody(<<"p">>, <<"s">>, <<"k">>, NULL, <<"w">>, {90}, {}, <<"z">>) }

NextAtomic ==
  \/ \E r \in AtomicClaimRequests, cid \in {NULL} \cup DOMAIN claims :
       PostClaim(r.project_id, WithClaimId(r, cid))
  \/ \E r \in AtomicClaimRequests, k \in CreateFailPoints :
       PostClaimFailing(r.project_id, WithClaimId(r, NULL), k)
  \/ \E c \in ClaimIds, r \in ReasonInputs : PostRetract(<<"p">>, c, r)
  \/ \E c \in DOMAIN claims, r \in ReasonInputs, k \in RetractFailPoints :
       PostRetractFailing(<<"p">>, c, r, k)

SpecAtomic == Init /\ [][NextAtomic]_vars

\* Requests of POST /api/v1/memories: project, body, whether the embedder
\* answers, and what the extraction service finds in the text.
MemoryRequest(p, body, embedOk, extracted) ==
  [project_id |-> p, body |-> body, embedOk |-> embedOk, extracted |-> extracted]

ExtractedClaim(predicate, objectValue, confidence) ==
  [predicate |-> predicate, object_value |-> objectValue, confidence |-> confidence]

OneClaim == <<ExtractedClaim(<<"k">>, <<"v", " ">>, {90})>>

MemoryRequests ==
  { MemoryRequest(<<"p">>, MemoryBody(<<"s">>, Pad(TextOf(1)), NULL, {}, {}, {}), TRUE, OneClaim),
    MemoryRequest(<<"p">>, MemoryBody(<<"s">>, TextOf(1), <<" ", "a">>, {FALSE}, {FALSE}, {70}),
                  TRUE, OneClaim),
    MemoryRequest(<<"p">>, MemoryBody(<<"s">>, TextOf(1), <<>>, {}, {}, {}), FALSE, <<>>),
    MemoryRequest(<<"p">>, MemoryBody(<<" ", "s">>, TextOf(2), NULL, {}, {}, {}), TRUE, <<>>),
    MemoryRequest(<<"p">>, MemoryBody(<<"s">>, TextOf(3), <<"a">>, {}, {}, {}), TRUE, OneClaim),
    MemoryRequest(<<"p">>, MemoryBody(<<"s">>, TextOf(4), NULL, {TRUE}, {TRUE}, {}), TRUE, OneClaim),
    MemoryRequest(<<"p">>, MemoryBody(<<"t">>, TextOf(3), NULL, {}, {}, {}), TRUE, <<>>) }

PatchRequests == {PatchBody(Pad(ShortText), {200})}

NextMem ==
  \/ \E r \in MemoryRequests : PostMemory(r.project_id, r.body, r.embedOk, r.extracted)
  \/ \E id \in DOMAIN memories : DeleteMemory(<<"p">>, id)

SpecMem == Init /\ [][NextMem]_vars

\* the requests of the life-cycle specification: two texts of one subject,
\* the second in conflict with the first
LifeRequests ==
  { MemoryRequest(<<"p">>, MemoryBody(<<"s">>, TextOf(1), NULL, {}, {}, {}), TRUE, <<>>),
    MemoryRequest(<<"p">>, MemoryBody(<<"s">>, TextOf(3), NULL, {}, {}, {}), TRUE, <<>>) }

NextLife ==
  \/ \E r \in LifeRequests : PostMemory(r.project_id, r.body, r.embedOk, r.extracted)
  \/ \E id \in DOMAIN memories, b \in PatchRequests : PatchMemory(<<"p">>, id, b, TRUE)
  \/ \E id \in DOMAIN memories : DeleteMemory(<<"p">>, id)
  \/ \E p \in Projects, id \in DOMAIN memories \cup {NextMemoryId} : RestoreMemory(p, id)

SpecLife == Init /\ [][NextLife]_vars

\* storage failures under POST /api/v1/memories
NextFail ==
  \/ \E r \in LifeRequests : PostMemory(r.project_id, r.body, r.embedOk, r.extracted)
  \/ \E r \in LifeRequests, i \in DOMAIN MemoryStoreCalls :
       PostMemoryFailing(r.project_id, r.body, r.embedOk, MemoryStoreCalls[i])
  \/ \E id \in DOMAIN memories : DeleteMemory(<<"p">>, id)
  \/ \E id \in DOMAIN memories : RestoreMemory(<<"p">>, id)

SpecFail == Init /\ [][NextFail]_vars

\* requests served concurrently: POST of two texts in conflict, and DELETE
RaceRequests ==
  { MemoryRequest(<<"p">>, MemoryBody(<<"s">>, TextOf(1), NULL, {}, {FALSE}, {}), TRUE, <<>>),
    MemoryRequest(<<"p">>, MemoryBody(<<"s">>, TextOf(3), NULL, {}, {FALSE}, {}), TRUE, <<>>) }

NextRace ==
  \/ \E r \in RaceRequests : PostMemoryRead(r.project_id, r.body, r.embedOk)
  \/ \E t \in InFlight : PostMemoryWrite(t)
  \/ \E id \in DOMAIN memories : DeleteMemory(<<"p">>, id)

SpecRace == Init /\ [][NextRace]_vars

\* the values of limit the GET routes are called with
LimitParams ==
  { NULL, <<>>, <<"0">>, <<"1">>, <<"2">>, <<"2", ".", "9">>, <<" ", "2", " ">>,
    <<"0", ".", "5">>, <<"-", "3">>, <<"5", "0">>, <<"2", "0", "0">>,
    <<"2", "0", "0", ".", "5">>, <<"2", "0", "1">>, <<"5", "0", "0">>,
    <<"1", "0", "0", "0">>, <<"1", "0", "0", "1">>, <<"1", "0", "0", "0", "0">>,
    <<"a", "b", "c">>, <<"7", "x">>, <<"1", ".", "2", ".", "3">> }

\* two memories that do not conflict (similarity 59), then one that supersedes
ListRequests ==
  { MemoryRequest(<<"p">>, MemoryBody(<<"s">>, TextOf(i), NULL, {}, {FALSE}, {}), TRUE, <<>>)
    : i \in {1, 2, 4} }

NextList ==
  \/ \E r \in ListRequests : PostMemory(r.project_id, r.body, r.embedOk, r.extracted)
  \/ \E s \in {<<"s">>, NULL}, l \in LimitParams : GetMemories(<<"p">>, s, l, NULL)
  \/ \E l \in LimitParams : GetSuperseded(<<"p">>, <<"s">>, l, NULL)
  \/ \E l \in LimitParams : GetSearch(<<"p">>, <<"s">>, <<"t", "e", "a">>, l, TRUE)
  \/ \E id \in DOMAIN memories \cup {NULL}, l \in LimitParams : GetRecalls(<<"p">>, id, l)

SpecList == Init /\ [][NextList]_vars

\* the event stream: connections are opened (for a subject, or for the whole
\* project when subject_id is absent or blank) and closed while memories are
\* created and superseded
NextBus ==
  \/ \E s \in {<<"s">>, <<" ">>, NULL}, throws \in BOOLEAN : SubscribeEvents(<<"p">>, s, throws)
  \/ \E cb \in DOMAIN inbox : CloseEvents(cb)
  \/ \E r \in RaceRequests : PostMemory(r.project_id, r.body, r.embedOk, r.extracted)

SpecBus == Init /\ [][NextBus]_vars

\* event streams: connections are opened and closed and their intervals fire
\* while memories are created and superseded
NextStream ==
  \/ \E s \in {<<"s">>, NULL} : SubscribeEvents(<<"p">>, s, FALSE)
  \/ \E cb \in DOMAIN inbox : Heartbeat(cb)
  \/ \E cb \in DOMAIN inbox : CloseEvents(cb)
  \/ \E r \in RaceRequests : PostMemory(r.project_id, r.body, r.embedOk, r.extracted)

SpecStream == Init /\ [][NextStream]_vars

\* project and subject ids that hold the characters the bus builds its keys
\* with: project "p:s", subjects "s:s" and "*"
TopicRequests ==
  { MemoryRequest(<<"p">>, MemoryBody(sub, TextOf(1), NULL, {}, {FALSE}, {}), TRUE, <<>>)
    : sub \in {<<"s">>, <<"s", ":", "s">>, <<"*">>} }

NextTopics ==
  \/ \E p \in {<<"p">>, <<"p", ":", "s">>}, s \in {<<"s">>, <<"*">>, NULL} :
       SubscribeEvents(p, s, FALSE)
  \/ \E cb \in DOMAIN inbox : CloseEvents(cb)
  \/ \E r \in TopicRequests : PostMemory(r.project_id, r.body, r.embedOk, r.extracted)

SpecTopics == Init /\ [][NextTopics]_vars

\* the bus used directly: callbacks are registered, some of them twice, the
\* functions subscribe returned are called, some of them twice, and events are
\* emitted
NextUnsubscribe ==
  \/ \E s \in {<<"s">>, NULL}, cb \in 1 .. MaxSubscribers :
       BusSubscribe(<<"p">>, s, cb, FALSE)
  \/ \E h \in handles : BusUnsubscribe(h)
  \/ BusEmit(<<"p">>, <<"s">>, "memory.updated", [id |-> <<"m", "1">>])

SpecUnsubscribe == Init /\ [][NextUnsubscribe]_vars

\* DELETE requests served concurrently, next to POSTs of which one names
\* the id of its memory itself
DeleteRequests ==
  { MemoryRequest(<<"p">>, MemoryBody(<<"s">>, TextOf(1), NULL, {}, {FALSE}, {}), TRUE, <<>>),
    MemoryRequest(<<"p">>, MemoryBody(<<"s">>, TextOf(3), <<"a">>, {}, {FALSE}, {}), TRUE, <<>>) }

NextDelete ==
  \/ \E r \in DeleteRequests : PostMemory(r.project_id, r.body, r.embedOk, r.extracted)
  \/ \E id \in DOMAIN memories \cup {<<"a">>} : DeleteMemoryRead(<<"p">>, id)
  \/ \E t \in InFlight : DeleteMemoryWrite(t)

SpecDelete == Init /\ [][NextDelete]_vars

\* PATCH and DELETE requests served concurrently
NextPatch ==
  \/ \E r \in RaceRequests : PostMemory(r.project_id, r.body, r.embedOk, r.extracted)
  \/ \E id \in DOMAIN memories \cup {<<"z">>}, b \in PatchRequests :
       PatchMemoryRead(<<"p">>, id, b, TRUE)
  \/ \E t \in InFlight : PatchMemoryWrite(t)
  \/ \E id \in DOMAIN memories : DeleteMemory(<<"p">>, id)

SpecPatch == Init /\ [][NextPatch]_vars

\* the requests of the specification of claim sources
SourceMemoryRequests ==
  { MemoryRequest(<<"p">>, MemoryBody(<<"s">>, TextOf(1), NULL, {}, {}, {}), TRUE, OneClaim) }

SourceClaimRequests ==
  { ClaimBody(<<"p">>, <<"s">>, <<"k">>, NULL, <<"w">>, {}, {}, mem)
      : mem \in DOMAIN memories \cup {<<"z">>} }

ExtractOutputs ==
  { <<ExtractedMemory(TextOf(3), 70, 75, OneClaim)>> }

ExtractRequests ==
  { ExtractBody(<<"s">>, TextOf(3), TRUE), ExtractBody(<<"s">>, TextOf(3), FALSE) }

NextSource ==
  \/ \E r \in SourceMemoryRequests : PostMemory(r.project_id, r.body, r.embedOk, r.extracted)
  \/ \E id \in DOMAIN memories : DeleteMemory(<<"p">>, id)
  \/ \E r \in SourceClaimRequests : PostClaim(r.project_id, WithClaimId(r, NULL))
  \/ \E t \in pending : ExtractionStep(t)
  \/ \E b \in ExtractRequests, x \in ExtractOutputs : ExtractMemories(<<"p">>, b, x, TRUE)

SpecSource == Init /\ [][NextSource]_vars

\* the claims an extraction returns: n claims of one predicate, all different
ManyClaims(n) == [i \in 1..n |-> ExtractedClaim(<<"k">>, [j \in 1..i |-> "v"], {90})]

\* one more claim than the extraction keeps
MoreThanKept == 21

\* claims that differ in case and in padding only, and a blank one
CaseClaims ==
  << ExtractedClaim(<<"k">>, <<"V">>, {90}), ExtractedClaim(<<"k">>, <<"v", " ">>, {80}),
     ExtractedClaim(<<" ">>, <<"v">>, {90}), ExtractedClaim(<<"K">>, <<"w">>, {90}),
     ExtractedClaim(<<"k">>, <<"W">>, {70}) >>

ExtractionRequests ==
  { MemoryRequest(<<"p">>, MemoryBody(<<"s">>, TextOf(1), NULL, {}, {}, {}), TRUE, CaseClaims),
    MemoryRequest(<<"p">>, MemoryBody(<<"s">>, TextOf(2), NULL, {}, {FALSE}, {}), TRUE, CaseClaims),
    MemoryRequest(<<"p">>, MemoryBody(<<"s">>, TextOf(2), NULL, {TRUE}, {TRUE}, {}), TRUE, CaseClaims),
    MemoryRequest(<<"p">>, MemoryBody(<<"s">>, TextOf(2), <<"a">>, {FALSE}, {TRUE}, {}), TRUE,
                  ManyClaims(MoreThanKept)) }

NextExtraction ==
  \/ \E r \in ExtractionRequests : PostMemory(r.project_id, r.body, r.embedOk, r.extracted)
  \/ \E t \in pending : ExtractionStep(t)
  \/ \E t \in pending : ExtractionFails(t)
  \/ SubscribeEvents(<<"p">>, NULL, FALSE)

SpecExtraction == Init /\ [][NextExtraction]_vars

\* two claims of one slot and a claim of another; retractions of any claim
ConcurrentClaimInputs ==
  { [ claim_id |-> NULL, project_id |-> <<"p">>, subject_id |-> <<"s">>, predicate |-> pred,
      object_value |-> <<"v">>, slot |-> NULL, confidence |-> {}, importance |-> {},
      source_memory_id |-> NULL ] : pred \in {<<"k">>, <<"n">>} }

NextConcurrent ==
  \/ \E input \in ConcurrentClaimInputs : BeginCreateClaim(input)
  \/ \E cid \in DOMAIN claims : BeginRetractClaim(<<"p">>, cid, ManualRetraction)
  \/ \E t \in Transactions : CreateClaimStep(t)
  \/ \E t \in Transactions : RetractClaimStep(t)

SpecConcurrent == Init /\ [][NextConcurrent]_vars

\* two requests with the same project, subject and text (so the same
\* embedding); they differ in importance only
DuplicateRequests ==
  { MemoryRequest(<<"p">>, MemoryBody(<<"s">>, TextOf(1), NULL, {}, {FALSE}, imp), TRUE, <<>>)
    : imp \in {{}, {70}} }

NextDuplicate ==
  \/ \E r \in DuplicateRequests : PostMemoryRead(r.project_id, r.body, r.embedOk)
  \/ \E t \in InFlight : PostMemoryWrite(t)
  \/ \E s \in {<<"s">>, NULL} : SubscribeEvents(<<"p">>, s, FALSE)

SpecDuplicate == Init /\ [][NextDuplicate]_vars

\* memories of two subjects of project p and one of project q; the claims
\* are those of subject s, with any stored memory as source
IsolationRequests ==
  { MemoryRequest(<<"p">>, MemoryBody(<<"s">>, TextOf(1), NULL, {}, {FALSE}, {}), TRUE, <<>>),
    MemoryRequest(<<"p">>, MemoryBody(<<"t">>, TextOf(3), NULL, {}, {FALSE}, {}), TRUE, <<>>),
    MemoryRequest(<<"q">>, MemoryBody(<<"s">>, TextOf(2), NULL, {}, {FALSE}, {}), TRUE, <<>>) }

NextIsolation ==
  \/ \E r \in IsolationRequests : PostMemory(r.project_id, r.body, r.embedOk, r.extracted)
  \/ \E r \in SourceClaimRequests : PostClaim(r.project_id, WithClaimId(r, NULL))
  \/ \E id \in DOMAIN memories : DeleteMemory(memories[id].project_id, id)

SpecIsolation == Init /\ [][NextIsolation]_vars

(***************************************************************************)
(* Properties: claims and slot_state                                       *)
(***************************************************************************)

SlotOfClaim(c) == SlotKey(claims[c].project_id, claims[c].subject_id, claims[c].slot)

SlotMates(c) == {d \in DOMAIN claims : SlotOfClaim(d) = SlotOfClaim(c) /\ d # c}

ActiveSlotMates(c) == {d \in SlotMates(c) : claims[d].status = "active"}

\* C1: whenever a slot_state row has status 'active', its active_claim_id names
\* an existing claim whose status is 'active' and whose project, subject and
\* slot are those of the row.
C1_ActiveSlotReferencesActiveClaim ==
  \A k \in DOMAIN slot_state :
    slot_state[k].status = "active" =>
      /\ slot_state[k].active_claim_id \in DOMAIN claims
      /\ claims[slot_state[k].active_claim_id].status = "active"
      /\ SlotOfClaim(slot_state[k].active_claim_id) = k

\* a retraction has just handed a slot back to an older claim, while another
\* slot is retracted
C1_Witness ==
  /\ last.op = "retractClaim"
  /\ last.success
  /\ last.restored_previous
  /\ slot_state[SlotOfClaim(last.claim_id)].status = "active"
  /\ claims[last.claim_id].status = "retracted"
  /\ \E k \in DOMAIN slot_state : slot_state[k].status = "retracted"

AgainResult == RetractResult(last.project_id, last.claim_id, last.reason)

DuplicatesOf(p, s, e) ==
  {id \in DOMAIN memories : /\ memories[id].project_id = p
                            /\ memories[id].subject_id = s
                            /\ ~memories[id].is_deleted
                            /\ memories[id].status = "active"
                            /\ memories[id].embedding # {}
                            /\ Similarity(EmbOf(memories[id].embedding), e) >= 85}

PostMemoryAnswered == last'.op = "createMemory" /\ last'.status \in {200, 201, 500}

\* C5: a POST /api/v1/memories whose embedding has similarity >= 85 to an
\* active, non-deleted memory of the same project and subject answers 200
\* with id = null, created = false, skipped = true, reason = 'duplicate';
\* no row is inserted, no memory is superseded, no claim extraction is
\* started and no event is emitted.
C5_DuplicateIsSkipped ==
  [][ ( /\ PostMemoryAnswered
        /\ last'.embedding # {}
        /\ DuplicatesOf(last'.project_id, last'.subject_id, EmbOf(last'.embedding)) # {} )
      => /\ last'.status = 200
         /\ last'.id = NULL
         /\ last'.created = FALSE
         /\ last'.skipped = TRUE
         /\ last'.reason = "duplicate"
         /\ last'.events = <<>>
         /\ memories' = memories
         /\ pending' = pending ]_vars

\* a duplicate of a live memory was skipped by a request that allows superseding
C5_Witness ==
  /\ last.op = "createMemory"
  /\ last.status = 200
  /\ last.skipped
  /\ ~last.no_supersede
  /\ DuplicatesOf(last.project_id, last.subject_id, EmbOf(last.embedding)) # {}
  /\ \E id \in DOMAIN memories : memories[id].status = "superseded"

\* C6 (as stated): a request with no_supersede = true never answers with the
\* duplicate skip and always creates the memory (201).
C6_NoSupersedeAlwaysCreates ==
  ( /\ last.op = "createMemory"
    /\ last.status \in {200, 201}
    /\ last.no_supersede )
  => last.status = 201 /\ last.created

\* C6 (amended): the duplicate guard runs whenever an embedding is present,
\* whatever no_supersede is.  A request with no_supersede = true whose
\* embedding has similarity >= 85 to an active, non-deleted memory of the
\* project and subject is skipped (200) and creates nothing; otherwise it
\* creates the memory (201) and then supersedes nothing, changes no existing
\* row and starts no claim extraction.
C6_NoSupersedeStillDeduplicates ==
  [][ ( /\ last'.op = "createMemory"
        /\ last'.status \in {200, 201}
        /\ last'.no_supersede )
      => IF /\ last'.embedding # {}
            /\ DuplicatesOf(last'.project_id, last'.subject_id, EmbOf(last'.embedding)) # {}
         THEN /\ last'.status = 200
              /\ last'.skipped
              /\ last'.id = NULL
              /\ memories' = memories
              /\ pending' = pending
         ELSE /\ last'.status = 201
              /\ last'.superseded_count = 0
              /\ last'.superseded_ids = <<>>
              /\ DOMAIN memories' = DOMAIN memories \cup {last'.id}
              /\ \A id \in DOMAIN memories : memories'[id] = memories[id]
              /\ pending' = pending ]_vars

\* a request with no_supersede = true was answered with the duplicate skip
C6_Witness ==
  /\ last.op = "createMemory"
  /\ last.status = 200
  /\ last.skipped
  /\ last.no_supersede
  /\ DuplicatesOf(last.project_id, last.subject_id, EmbOf(last.embedding)) # {}

\* C7: after a POST /api/v1/memories that creates M and has conflicting
\* memories M1..Mk (active, non-deleted, same subject, similarity in
\* [60,85)), every Mi has status 'superseded' and superseded_by = M.id,
\* listMemories(include_superseded = false) contains M and no Mi, and
\* listSupersededMemories contains every Mi.
C7_ConflictsAreSuperseded ==
  ( /\ last.op = "createMemory"
    /\ last.status = 201
    /\ last.conflicts # {} )
  => LET listed == Range(ListMemories(memories, last.project_id, last.subject_id,
                                      {}, {}, FALSE, FALSE))
         superseded == Range(ListSupersededMemories(memories, last.project_id,
                                                    last.subject_id, {}, {}))
     IN /\ \A mi \in last.conflicts :
             /\ memories[mi].status = "superseded"
             /\ memories[mi].superseded_by = last.id
             /\ mi \notin listed
             /\ mi \in superseded
        /\ last.id \in listed

\* C8: for every memory row, after any sequence of create, supersede,
\* restore, patch and soft-delete operations, superseded_by is non-null if
\* and only if status = 'superseded'; a restore leaves the row with
\* status = 'active' and superseded_by = null.
C8_SupersededByIffSuperseded ==
  /\ \A id \in DOMAIN memories :
       (memories[id].superseded_by # NULL) <=> (memories[id].status = "superseded")
  /\ (last.op = "restoreMemory" /\ last.restored)
       => /\ memories[last.id].status = "active"
          /\ memories[last.id].superseded_by = NULL

\* a superseded memory was restored while another one stays superseded
C8_Witness ==
  /\ last.op = "restoreMemory"
  /\ last.restored
  /\ memories[last.id].status = "active"
  /\ \E id \in DOMAIN memories :
       /\ memories[id].status = "superseded"
       /\ memories[id].superseded_by \in DOMAIN memories
  /\ \E id \in DOMAIN memories : memories[id].is_deleted

\* C9: no claim is ever created with a soft-deleted memory as its source:
\* whenever a claim is inserted (POST /api/v1/claims, extract with
\* learn = true, the detached extraction of POST /api/v1/memories), the
\* memory its source_memory_id names has is_deleted = false.
C9_NoClaimFromDeletedMemory ==
  [][ \A c \in DOMAIN claims' \ DOMAIN claims :
        claims'[c].source_memory_id # NULL
          => /\ claims'[c].source_memory_id \in DOMAIN memories'
             /\ ~memories'[claims'[c].source_memory_id].is_deleted ]_vars

\* the requests the list, search and retrieval services are probed with:
\* query, limit, min_score, the answer of the classifier, whether the embedder
\* answers
Probe(query, limit, minScore, raw, ok) ==
  [query |-> query, limit |-> limit, min_score |-> minScore, raw |-> raw, ok |-> ok]

ProbeAnswer(mode, predicates, hints, expanded) ==
  {[mode |-> mode, predicates |-> predicates, search_hints |-> hints,
    expanded_queries |-> expanded]}

Tea == <<"t", "e", "a">>

ZzTea == <<"z", "z", " ", "t", "e", "a">>

Probes ==
  { Probe(Tea, {}, {}, ProbeAnswer("broad", <<>>, <<>>, <<>>), TRUE),
    Probe(Tea, {}, {}, ProbeAnswer("direct", <<<<"k">>>>, <<>>, <<>>), TRUE),
    Probe(ZzTea, {1}, {0}, ProbeAnswer("direct", <<<<"k">>>>, <<>>, <<>>), FALSE),
    Probe(ZzTea, {}, {}, ProbeAnswer("direct", <<>>, <<Tea>>, <<>>), TRUE),
    Probe(ZzTea, {1}, {}, ProbeAnswer("indirect", <<<<"k">>>>, <<>>, <<Tea>>), TRUE),
    Probe(Tea, {1}, {0}, {}, TRUE),
    Probe(Tea, {}, {}, ProbeAnswer("other", <<>>, <<>>, <<>>), FALSE) }

ProbeSubjects == {<<"s">>}

\* the memories some list, search or retrieval of the project and subject returns
Surfaced(p, s) ==
  Range(ListMemories(memories, p, s, {}, {}, FALSE, TRUE))
  \cup Range(ListMemories(memories, p, s, {}, {}, FALSE, FALSE))
  \cup Range(ListSupersededMemories(memories, p, s, {}, {}))
  \cup UNION UNION { SearchMemories(memories, p, s, a.query,
                                    EmbedResult(a.query, a.ok), a.limit, a.min_score)
                     : a \in Probes }
  \cup UNION UNION { RecallSearch(memories, GetCurrentTruth(p, s), p, s,
                                  RecallArgs(a.query, a.limit, a.min_score), a.raw, a.ok)
                     : a \in Probes }
  \cup UNION UNION { SimpleRecallSearch(memories, p, s,
                                        RecallArgs(a.query, a.limit, a.min_score), a.ok)
                     : a \in Probes }

DeletedNotSurfaced ==
  (\E id \in DOMAIN memories : memories[id].is_deleted)
    => /\ \A id \in DOMAIN memories :
            memories[id].is_deleted
              => GetMemory(memories[id].project_id, id) = {memories[id]}
       /\ \A p \in Projects, s \in ProbeSubjects :
            \A id \in Surfaced(p, s) : ~memories[id].is_deleted

DeletedStaysDeleted ==
  \A id \in DOMAIN memories :
    /\ id \in DOMAIN memories'
    /\ memories[id].is_deleted => memories'[id].is_deleted

ClaimTablesUnchanged ==
  /\ claims' = claims
  /\ claim_assertions' = claim_assertions
  /\ slot_state' = slot_state
  /\ claim_edges' = claim_edges

\* C11: createClaim and retractClaim are all-or-nothing: when a statement of
\* the transaction fails (a claim_id that exists already, a source_memory_id
\* that names no memory, a statement that throws) the call raises an error
\* and claims, claim_assertions, slot_state and claim_edges are as before
\* the call; createClaim never overwrites an existing claim.
C11_TransactionsAreAtomic ==
  [][ /\ (last'.op \in {"createClaim", "retractClaim"} /\ last'.status = 500)
         => ClaimTablesUnchanged
      /\ last'.op = "createClaim"
         => \A c \in DOMAIN claims : c \in DOMAIN claims' /\ claims'[c] = claims[c] ]_vars

\* a retraction failed after it had updated the claim and the slot, and the
\* claim is still the active winner of its slot
C11_Witness ==
  /\ last.op = "retractClaim"
  /\ last.status = 500
  /\ last.failed_at = 5
  /\ claims[last.claim_id].status = "active"
  /\ slot_state[SlotOfClaim(last.claim_id)].active_claim_id = last.claim_id
  /\ \E c \in DOMAIN claims : c # last.claim_id /\ SlotOfClaim(c) = SlotOfClaim(last.claim_id)


\* C12: a POST /api/v1/memories answered with 500 server_error has inserted
\* no memory row, has superseded no memory and has emitted no event,
\* whichever storage call failed.
C12_FailedCreateLeavesNothing ==
  [][ (last'.op = "createMemory" /\ last'.status = 500)
      => memories' = memories /\ last'.events = <<>> ]_vars


SupersededEvents(events) == SelectSeq(events, LAMBDA e : e.type = "memory.superseded")

\* C13: a POST /api/v1/memories emits memory.superseded for id X only if the
\* row of X went from active to superseded, with superseded_by the new
\* memory, in that request; the number of memory.superseded events and the
\* length of superseded_ids both equal superseded_count.  Also when another
\* request deletes a conflicting memory between findConflictingMemories and
\* supersedeMemories.
C13_SupersededEventsMatchRows ==
  [][ (last'.op = "createMemory" /\ last'.status = 201)
      => LET evs == SupersededEvents(last'.events)
         IN /\ \A i \in 1..Len(evs) :
                 /\ evs[i].data.id \in DOMAIN memories
                 /\ memories[evs[i].data.id].status = "active"
                 /\ memories'[evs[i].data.id].status = "superseded"
                 /\ memories'[evs[i].data.id].superseded_by = last'.id
            /\ Len(evs) = last'.superseded_count
            /\ Len(last'.superseded_ids) = last'.superseded_count ]_vars

\* what the callback cb was called with during the step
Received(cb) ==
  SubSeq(inbox'[cb].events, Len(inbox[cb].events) + 1, Len(inbox'[cb].events))

\* C14: every subscriber receives memory.created for M before any
\* memory.superseded event with superseded_by = M, and the events one
\* request emits reach each subscriber in the order of its emit calls, after
\* everything the subscriber had received before.
C14_EventsArriveInEmitOrder ==
  /\ [](\A cb \in DOMAIN inbox :
          LET got == inbox[cb].events
          IN \A j \in DOMAIN got :
               got[j].type = "memory.superseded"
                 => \E i \in 1 .. (j - 1) : /\ got[i].type = "memory.created"
                                             /\ got[i].data.id = got[j].data.superseded_by)
  /\ [][ \A cb \in DOMAIN inbox :
           LET emitted == EventsOf(last')
               got == Received(cb)
               Pos(e) == CHOOSE k \in DOMAIN emitted : emitted[k] = e
           IN /\ Len(inbox'[cb].events) >= Len(inbox[cb].events)
              /\ SubSeq(inbox'[cb].events, 1, Len(inbox[cb].events)) = inbox[cb].events
              /\ \A i \in DOMAIN got : \E k \in DOMAIN emitted : emitted[k] = got[i]
              /\ \A i, j \in DOMAIN got : i < j => Pos(got[i]) <= Pos(got[j]) ]_vars

\* a subscriber of the subject and a subscriber of the whole project have both
\* received memory.created for a memory M followed by memory.superseded with
\* superseded_by = M
C14_Witness ==
  \E cb1, cb2 \in DOMAIN inbox :
    /\ inbox[cb1].subject_id = <<"s">>
    /\ inbox[cb2].subject_id = NULL
    /\ \A cb \in {cb1, cb2} :
         \E i, j \in DOMAIN inbox[cb].events :
           /\ i < j
           /\ inbox[cb].events[i].type = "memory.created"
           /\ inbox[cb].events[j].type = "memory.superseded"
           /\ inbox[cb].events[j].data.superseded_by = inbox[cb].events[i].data.id

\* C15: memory.deleted is emitted only when a row went from is_deleted =
\* false to true.  A DELETE answers deleted:true and emits exactly one
\* memory.deleted for the id when, and only when, its own update made that
\* transition; every other DELETE (repeated, concurrent, unknown id) answers
\* deleted:false and emits nothing.  A row makes the transition at most
\* once, so exactly one of any number of DELETEs of a memory answers
\* deleted:true.
C15_DeleteEmitsOnTransition ==
  [][ /\ last'.op = "deleteMemory" /\ last'.status = 200
         => LET went == /\ last'.id \in DOMAIN memories
                        /\ memories[last'.id].project_id = last'.project_id
                        /\ ~memories[last'.id].is_deleted
                        /\ memories'[last'.id].is_deleted
            IN /\ last'.deleted <=> went
               /\ last'.events =
                    IF went
                    THEN <<Event("memory.deleted", last'.project_id,
                                 memories[last'.id].subject_id, [id |-> last'.id])>>
                    ELSE <<>>
               /\ \A id \in DOMAIN memories \ {last'.id} : memories'[id] = memories[id]
      /\ \A id \in DOMAIN memories :
           id \in DOMAIN memories' /\ (memories[id].is_deleted => memories'[id].is_deleted) ]_vars

\* C16: POST /api/v1/memories/:id/restore is a state machine on the memory
\* the id names in the project: no such row gives 404 memory_not_found, a
\* soft-deleted row 400 memory_deleted, an active row 200 restored:false, and
\* in these three cases no row changes and no event is emitted; a non-deleted
\* superseded row becomes active with superseded_by null, exactly one
\* memory.updated event with its id and status 'active' is emitted and the
\* answer is 200 restored:true.
C16_RestoreStateMachine ==
  [][ last'.op = "restoreMemory"
        => LET p == last'.project_id
               id == last'.id
               known == id \in DOMAIN memories /\ memories[id].project_id = p
               quiet == memories' = memories /\ last'.events = <<>> /\ ~last'.restored
           IN IF ~known
              THEN last'.status = 404 /\ last'.error = "memory_not_found" /\ quiet
              ELSE IF memories[id].is_deleted
              THEN last'.status = 400 /\ last'.error = "memory_deleted" /\ quiet
              ELSE IF memories[id].status = "active"
              THEN last'.status = 200 /\ quiet
              ELSE /\ last'.status = 200 /\ last'.restored
                   /\ memories' = [memories EXCEPT ![id].status = "active",
                                                   ![id].superseded_by = NULL]
                   /\ last'.events = <<Event("memory.updated", p, memories[id].subject_id,
                                             [id |-> id, status |-> "active"])>> ]_vars

\* a superseded memory was restored and the one event of the restore is out,
\* while a memory that was restored before is active again
C16_Witness ==
  /\ last.op = "restoreMemory"
  /\ last.status = 200
  /\ last.restored
  /\ Len(last.events) = 1
  /\ last.events[1].data.status = "active"
  /\ memories[last.id].superseded_by = NULL

\* C17: a PATCH never modifies a soft-deleted memory and never emits
\* memory.updated for it; a PATCH on a missing or deleted memory answers 404
\* and changes nothing, in every interleaving of PATCH and DELETE.
C17_PatchNeverTouchesDeleted ==
  [][ last'.op = "updateMemory" /\ last'.status # 0
      => IF last'.status = 200
         THEN ~memories[last'.id].is_deleted
         ELSE memories' = memories ]_vars

\* the limit the specification gives for a value of the parameter
DocumentedLimit(param, default, max) ==
  IF param = NULL \/ NumberOf(param) = {} THEN default
  ELSE LET n == NumOf(NumberOf(param))
       IN IF n < 10 THEN 1 ELSE IF n > 10 * max THEN max ELSE n \div 10

\* C18: the LIMIT of list, superseded-list, search and recalls is the
\* documented default (50, 50, 25, 100) when the parameter is absent or not a
\* number, and otherwise the number floored and clamped into [1, max]
\* (max 200, 200, 200, 1000).
C18_LimitIsResolvedAsDocumented ==
  [][ last'.status = 200
        => /\ last'.op = "listMemories" => last'.limit = DocumentedLimit(last'.param, 50, 200)
           /\ last'.op = "listSuperseded" => last'.limit = DocumentedLimit(last'.param, 50, 200)
           /\ last'.op = "search" => last'.limit = DocumentedLimit(last'.param, 25, 200)
           /\ last'.op = "recalls" => last'.limit = DocumentedLimit(last'.param, 100, 1000) ]_vars

\* the active, non-deleted memories of a project and subject that have an
\* embedding
Comparable(p, s) ==
  {id \in DOMAIN memories : /\ memories[id].project_id = p
                            /\ memories[id].subject_id = s
                            /\ ~memories[id].is_deleted
                            /\ memories[id].status = "active"
                            /\ memories[id].embedding # {}}

\* C19: for a POST /api/v1/memories with an embedding and no_supersede = false,
\* what happens to each active, non-deleted memory m of the subject depends
\* only on its similarity s to the new text: if some m has s >= 85 the request
\* is skipped as a duplicate and nothing changes; otherwise every m with
\* 60 <= s < 85 is superseded by the new memory and every m with s < 60 stays
\* active.  No memory is both a duplicate hit and a conflict candidate.
C19_ThresholdsDecide ==
  [][ ( /\ PostMemoryAnswered
        /\ last'.status # 500
        /\ last'.embedding # {}
        /\ ~last'.no_supersede )
      => LET e == EmbOf(last'.embedding)
             live == Comparable(last'.project_id, last'.subject_id)
             s(m) == Similarity(EmbOf(memories[m].embedding), e)
         IN /\ IF \E m \in live : s(m) >= 85
               THEN last'.skipped /\ memories' = memories
               ELSE /\ last'.created
                    /\ \A m \in live :
                         /\ (60 <= s(m) /\ s(m) < 85)
                              => /\ memories'[m].status = "superseded"
                                 /\ memories'[m].superseded_by = last'.id
                         /\ s(m) < 60 => memories'[m] = memories[m]
            /\ DuplicateCandidates(last'.project_id, last'.subject_id, e, DuplicateThreshold)
                 \cap ConflictCandidates(last'.project_id, last'.subject_id, e,
                                         ConflictMinSimilarity, ConflictMaxSimilarity) = {} ]_vars

\* C20: an emit for (P, S) calls every callback subscribed at that moment
\* with (P, S) and every callback subscribed with P and no subject, whether or
\* not a callback called before it threw.
C20_EmitReachesEverySubscriber ==
  [][ \A k \in DOMAIN EventsOf(last') :
        LET e == EventsOf(last')[k]
        IN \A cb \in Subscribed(subscribers) :
             ( /\ inbox[cb].project_id = e.project_id
               /\ inbox[cb].subject_id \in {e.subject_id, NULL} )
               => \E i \in DOMAIN Received(cb) : Received(cb)[i] = e ]_vars

\* the callback registered first for a subject throws, and the one registered
\* after it for the same subject was still called with the event just emitted
C20_Witness ==
  /\ EventsOf(last) # <<>>
  /\ \E k \in DOMAIN subscribers :
       /\ Len(subscribers[k]) = 2
       /\ inbox[subscribers[k][1]].throws
       /\ inbox[subscribers[k][2]].subject_id = last.events[1].subject_id
       /\ inbox[subscribers[k][2]].events # <<>>
       /\ inbox[subscribers[k][2]].events[Len(inbox[subscribers[k][2]].events)]
            = last.events[Len(last.events)]

(***************************************************************************)
(* Properties: event bus and event stream                                  *)
(***************************************************************************)

\* the callbacks for which some subscribe call has not been undone yet
Registered == {h.cb : h \in {g \in handles : g.calls = 0}}

\* C21: the function subscribe returns is an idempotent unsubscribe: a
\* callback is called with an event only while a subscribe call of it has not
\* been undone, and a second or later call of the function changes nothing in
\* the bus: no registration is removed, not even a later registration of the
\* same callback for the same topic.
C21_UnsubscribeIsIdempotent ==
  [][ /\ \A cb \in DOMAIN inbox : Received(cb) # <<>> => cb \in Registered
      /\ (last'.op = "bus.unsubscribe" /\ last'.again)
           => subscribers' = subscribers /\ inbox' = inbox ]_vars

\* C29: a callback subscribed with project P is never called with an event
\* emitted for another project, and a callback subscribed with an exact subject
\* S is never called with an event emitted for another subject, whatever
\* characters the ids hold.
C29_TopicsAreIsolated ==
  [][ \A cb \in DOMAIN inbox :
        \A i \in DOMAIN Received(cb) :
          /\ Received(cb)[i].project_id = inbox[cb].project_id
          /\ inbox[cb].subject_id # NULL
               => Received(cb)[i].subject_id = inbox[cb].subject_id ]_vars

\* C30: one emit calls each registered callback at most once: no callback is
\* called twice with the same event, whatever subject the event is emitted
\* for.
C30_EmitCallsOnce ==
  [][ \A cb \in DOMAIN inbox :
        \A i, j \in DOMAIN Received(cb) : Received(cb)[i] = Received(cb)[j] => i = j ]_vars

\* the SSE connections
Connections == {cb \in DOMAIN inbox : "stream" \in DOMAIN inbox[cb]}

MemoryFrames(stream) ==
  SelectSeq(stream, LAMBDA f : f.event \notin {"connected", "heartbeat"})

\* C22: on every SSE connection the first frame written is 'connected', and
\* it is written once; a connection just opened holds nothing else, and the
\* memory frames written to a connection during a step are the events emitted
\* in that step, so no event emitted before the subscription reaches it.
C22_ConnectedComesFirst ==
  /\ [](\A cb \in Connections :
          /\ inbox[cb].stream # <<>>
          /\ inbox[cb].stream[1].event = "connected"
          /\ \A i \in 2 .. Len(inbox[cb].stream) : inbox[cb].stream[i].event # "connected")
  /\ [][ \A cb \in DOMAIN inbox' :
           IF cb \in DOMAIN inbox
           THEN "stream" \in DOMAIN inbox[cb]
                  => LET old == inbox[cb].stream
                         new == SubSeq(inbox'[cb].stream, Len(old) + 1, Len(inbox'[cb].stream))
                     IN /\ SubSeq(inbox'[cb].stream, 1, Len(old)) = old
                        /\ \A i \in DOMAIN MemoryFrames(new) :
                             \E k \in DOMAIN EventsOf(last') :
                               /\ EventsOf(last')[k].type = MemoryFrames(new)[i].event
                               /\ EventsOf(last')[k].data = MemoryFrames(new)[i].data
           ELSE MemoryFrames(inbox'[cb].stream) = <<>> ]_vars

\* a connection opened after one memory had been created was written
\* 'connected' and then the memory.created of a later memory only
C22_Witness ==
  \E cb \in Connections :
    /\ Len(inbox[cb].stream) >= 2
    /\ inbox[cb].stream[1].event = "connected"
    /\ inbox[cb].stream[2].event = "memory.created"
    /\ \E id \in DOMAIN memories :
         \A i \in DOMAIN inbox[cb].stream :
           inbox[cb].stream[i].event = "memory.created" => inbox[cb].stream[i].data.id # id

\* C23: when an SSE client disconnects its interval is cleared and its
\* callback leaves the bus: nothing is written to a closed connection any
\* more, a closed connection has no registration, the bus holds no empty
\* topic entry, and when every connection is closed the bus holds no entry at
\* all.
C23_CloseStopsEverything ==
  /\ [](/\ \A cb \in Connections : inbox[cb].closed => cb \notin Subscribed(subscribers)
        /\ \A k \in DOMAIN subscribers : subscribers[k] # <<>>
        /\ (\A cb \in Connections : inbox[cb].closed) => subscribers = <<>>)
  /\ [][ \A cb \in Connections :
           inbox[cb].closed => inbox'[cb].stream = inbox[cb].stream ]_vars

\* two connections that were written a heartbeat and a memory event are both
\* closed, and a memory was created after the second one closed
C23_Witness ==
  /\ Cardinality(Connections) = 2
  /\ \A cb \in Connections :
       /\ inbox[cb].closed
       /\ \E i \in DOMAIN inbox[cb].stream : inbox[cb].stream[i].event = "heartbeat"
       /\ MemoryFrames(inbox[cb].stream) # <<>>
  /\ subscribers = <<>>
  /\ last.op = "createMemory"
  /\ last.status = 201

(***************************************************************************)
(* Properties: extraction, truth, concurrency, retrieval                   *)
(***************************************************************************)

\* the claims created from memory m
ClaimsFrom(m) == {c \in DOMAIN claims : claims[c].source_memory_id = m}

\* C24: the detached extraction of a 201 POST /memories is started only when
\* extract_claims is not false and no_supersede is not set; what it creates
\* and what it still has to create are at most 20 claims, no two of them with
\* the same predicate and lowercased object_value, all with the created
\* memory as source_memory_id; a step of it, failing or not, leaves the
\* memories and the subscribers' streams as they are and emits nothing.
C24_ExtractionIsBoundedAndSilent ==
  /\ [](/\ \A t \in pending :
            /\ t.memory_id \in DOMAIN memories
            /\ Cardinality(ClaimsFrom(t.memory_id)) + Len(t.claims) <= 20
       /\ \A m \in DOMAIN memories :
            /\ Cardinality(ClaimsFrom(m)) <= 20
            /\ \A c, d \in ClaimsFrom(m) :
                 c # d => ~(/\ claims[c].predicate = claims[d].predicate
                            /\ ToLowerCase(claims[c].object_value)
                                 = ToLowerCase(claims[d].object_value)))
  /\ [][/\ (last'.op = "createMemory" /\ pending' # pending) =>
           (/\ last'.status = 201
            /\ last'.extract_claims # {FALSE}
            /\ ~last'.no_supersede
            /\ \A t \in pending' \ pending :
                 /\ t.memory_id = last'.id
                 /\ t.memory_id \notin DOMAIN memories
                 /\ t.project_id = last'.project_id)
        /\ last'.op = "extractClaims" =>
           (/\ memories' = memories
            /\ inbox' = inbox
            /\ EventsOf(last') = <<>>
            /\ \A c \in DOMAIN claims' \ DOMAIN claims :
                 \E t \in pending : /\ claims'[c].source_memory_id = t.memory_id
                                     /\ t \notin pending')
       ]_vars

\* both claims of an extraction that returned five are created, a later
\* extraction has failed, and a subscriber is listening
C24_Witness ==
  /\ \E m \in DOMAIN memories : Cardinality(ClaimsFrom(m)) = 2
  /\ last.op = "extractClaims" /\ last.status = 500
  /\ inbox # <<>>
  /\ Cardinality(DOMAIN memories) >= 2

\* C25: getCurrentTruth returns at most one row per slot and getCurrentSlot at
\* most one row; every row they return names a claim of that slot whose
\* status is 'active'.
C25_TruthExposesOneActiveClaim ==
  \A k \in DOMAIN slot_state :
    LET truth == GetCurrentTruth(k[1], k[2])
        current == GetCurrentSlot(k[1], k[2], k[3])
    IN /\ \A r, q \in truth : r.slot = q.slot => r = q
       /\ Cardinality(current) <= 1
       /\ current \subseteq truth
       /\ \A r \in truth :
            /\ r.active_claim_id \in DOMAIN claims
            /\ claims[r.active_claim_id].status = "active"
            /\ claims[r.active_claim_id].slot = r.slot
            /\ claims[r.active_claim_id].subject_id = k[2]

\* a slot with two active claims, one of them returned, while a third claim
\* is retracted
C25_Witness ==
  /\ \E k \in DOMAIN slot_state :
       \E r \in GetCurrentSlot(k[1], k[2], k[3]) :
         \E c \in DOMAIN claims : /\ c # r.active_claim_id
                                  /\ claims[c].status = "active"
                                  /\ claims[c].slot = r.slot
  /\ \E c \in DOMAIN claims : claims[c].status = "retracted"

\* C26: once every open createClaim and retractClaim transaction has
\* committed, each slot_state row with status 'active' references a claim
\* whose status is 'active'.
C26_ActiveSlotSurvivesConcurrency ==
  Transactions = {} =>
    \A k \in DOMAIN slot_state :
      slot_state[k].status = "active" =>
        /\ slot_state[k].active_claim_id \in DOMAIN claims
        /\ claims[slot_state[k].active_claim_id].status = "active"

\* C27: of the POST /memories requests for one project, subject and
\* embedding, however their steps interleave, one is answered 201 and the
\* others are skipped as duplicates: there is one row and every subscriber
\* receives memory.created once.
C27_OneRowForConcurrentDuplicates ==
  /\ [](/\ \A m, n \in DOMAIN memories :
             (/\ m # n
              /\ memories[m].project_id = memories[n].project_id
              /\ memories[m].subject_id = memories[n].subject_id
              /\ memories[m].embedding # {})
               => memories[m].embedding # memories[n].embedding
        /\ \A cb \in DOMAIN inbox :
             Cardinality({i \in DOMAIN inbox[cb].events :
                            inbox[cb].events[i].type = "memory.created"}) <= 1)
  /\ [][(last'.op = "createMemory" /\ last'.status = 201 /\ last'.embedding # {}) =>
          FindDuplicateMemory(last'.project_id, last'.subject_id, EmbOf(last'.embedding),
                              DuplicateThreshold) = {}
       ]_vars

IsolationSubjects == {<<"s">>, <<"t">>}

\* C28: every memory a list, a search or a retrieval on (P, S) returns, in
\* every mode, is a memory of project P and subject S.
C28_RetrievalIsSubjectIsolated ==
  \A p \in Projects, s \in IsolationSubjects :
    \A id \in Surfaced(p, s) :
      memories[id].project_id = p /\ memories[id].subject_id = s

====
